---- MODULE Spec2Model ----
(***************************************************************************)
(* Crew orchestration engine: the bounded-concurrency batch executor       *)
(* (ParallelExecutor.runBatch) and the wave scheduler built on it          *)
(* (PlanDAGExecutor.run).                                                  *)
(*                                                                         *)
(* JavaScript runs one callback at a time, so every action below is one    *)
(* synchronous stretch of code between two suspension points (an await or  *)
(* a promise reaction).  The order in which pending reactions run, and the *)
(* time a unit of work's action takes, are chosen by the environment.      *)
(***************************************************************************)
EXTENDS Integers, Sequences, FiniteSets, TLC

\* ---------------------------------------------------------------- bounds
MaxSteps == 3
MaxCeiling == 2
MaxItems == 3
MaxEdges == 2
MaxCalls == 2

\* the largest agent-loop / reflection-cycle ceiling a crew configures
MaxLoops == 1

\* the largest capacity a ledger is built with, beside the default
MaxCapacity == 2

\* the most entries appended to a ledger between two clears
MaxAppends == 5

\* ------------------------------------------------------------- constants
NoAgent == "undefined"
NoGroup == "undefined"
NoMsg == "undefined"
MissingId == "sX"
DefaultGroupKey == "__default"
DeadlockMsg == "Deadlock: dependencies unresolved"
UnknownErrorMsg == "Unknown error"
UnassignedAgent == "unassigned"
RaisedMsg == "boom"
ReturnedMsg == "work failed"
HookMsg == "hook failed"

AgentIds == {"a", "b"}
GroupLabels == {"g"}
Phases == {"planning", "execution", "reflection"}
HookNames == {"onStartBatch", "onResult", "onFinishBatch"}
Outcomes == {"ok", "fail", "raise"}

VARIABLES
    maxConcurrent,  \* ParallelExecutor.maxConcurrent
    hooks,          \* the hooks of the executor that may throw when called
    work,           \* work[i]: the AgentWork built for item i (agentId, phase)
    stage,          \* stage[i]: where item i is in launchNext's promise chain
    batchOf,        \* batchOf[i]: the runBatch call item i was submitted to (0: none)
    outcome,        \* outcome[i]: how item i's action ended ("unset" before)
    queue,          \* queue[b]: runBatch call b's queue of items not yet launched
    inFlight,       \* inFlight[b]: runBatch call b's inFlight array
    results,        \* results[b]: runBatch call b's results array
    awaited,        \* the promises Promise.all(inFlight) was given
    summary,        \* the ParallelBatchSummary of the current call
    bpc,            \* position of the current runBatch call
    plan,           \* plan.steps
    factory,        \* which AgentRunFactory the caller passed to run
    dpc,            \* position of PlanDAGExecutor.run
    waves,          \* run's waves counter
    executed,       \* run's executed counter
    groups,         \* the current wave's groups, in Map insertion order
    gi,             \* index of the group being processed
    mi,             \* index of the next step of the group to mark running
    rk,             \* index of the next result of summary.results to map back
    waveLog,        \* wave indices passed to hooks.onWaveStart
    waveOf,         \* waveOf[s]: the wave in which step s was started (-1: never)
    runResult       \* the PlanDagRunResult returned

VARIABLES
    fn,             \* the pure function under evaluation ("none": no evaluation)
    arg,            \* its argument
    ret,            \* what it returned or threw
    loop,           \* the repair loop in progress: "route", "planner" or "none"
    maxAttempts,    \* maxAttempts[l]: the attempt ceiling repair loop l is given
    attempt,        \* the loop's attempt counter
    llmCalls,       \* llmCalls[l]: number of llm.chat calls made by loop l
    messages,       \* the loop's messages array
    response,       \* raw: the text of the last model response
    lastError,      \* the loop's lastError
    decision,       \* the decision parsed by the loop (planner: kept across attempts)
    raised,         \* the error the loop threw to its caller (<<>>: none)
    rpc,            \* position inside the repair loop
    throwing,       \* the caller-supplied callbacks that may throw when called
    policyMap,      \* ToolAllowlistEnforcer.policyMap
    calls,          \* the constructor call and the upsertPolicy / removePolicy calls made
    verdict,        \* what the last call of check returned
    crew,           \* CrewOrchestrator.crew with its executionPolicies
    termination,    \* CrewOrchestrator.termination
    memory,         \* the entries of CrewOrchestrator.memory
    telemetry,      \* the calls received by cfg.onPlanStepUpdate / onPlanWaveComplete
    lastReturn,     \* what the last incrementAgentLoop / incrementReflectionCycle returned
    opc,            \* position of CrewOrchestrator.run
    runOut,         \* the OrchestratorRunResult run resolved with
    listener,       \* the hooks PlanDAGExecutor was built with
    store,          \* what cfg.getGlobalState answers: crews and selectedCrewId
    maxEntries,     \* ShortTermMemory.maxEntries
    appended,       \* the entries the ledger's callers appended since the last clear
    tracker,        \* the checkpoint tracker the executor's wrapper was built over
    commits         \* commits[i]: how the calls of tracker.commit made for item i ended

fnVars == <<fn, arg, ret>>
repairVars == <<loop, maxAttempts, attempt, llmCalls, messages, response, lastError,
                decision, raised, rpc, throwing>>
allowVars == <<policyMap, calls, verdict>>
orchVars == <<crew, termination, memory, telemetry, lastReturn, opc, runOut, listener>>
setupVars == <<store, maxEntries, appended, tracker, commits>>
crewVars == <<fnVars, repairVars, allowVars, orchVars, setupVars>>

vars == <<maxConcurrent, hooks, work, stage, batchOf, outcome, queue, inFlight,
          results, awaited, summary, bpc, plan, factory, dpc, waves, executed,
          groups, gi, mi, rk, waveLog, waveOf, runResult, crewVars>>

execVars == <<maxConcurrent, hooks>>
itemVars == <<work, stage, batchOf, outcome>>
batchVars == <<queue, inFlight, results, awaited, summary, bpc>>
dagVars == <<plan, factory, dpc, waves, executed, groups, gi, mi, rk, waveLog,
             waveOf, runResult>>
nonRepairVars == <<fnVars, allowVars, orchVars, setupVars, execVars, itemVars, batchVars, dagVars>>
nonFnVars == <<repairVars, allowVars, orchVars, setupVars, execVars, itemVars, batchVars, dagVars>>
nonAllowVars == <<fnVars, repairVars, orchVars, setupVars, execVars, itemVars, batchVars, dagVars>>

\* ---------------------------------------------------------------- helpers
Min(a, b) == IF a <= b THEN a ELSE b

Range(s) == {s[x] : x \in DOMAIN s}

Items == DOMAIN stage

cur == Len(queue)

NoSummary == [succeeded |-> <<>>, failed |-> <<>>, built |-> FALSE]

NoRunResult == [waves |-> -1, stepsExecuted |-> -1, failedSteps |-> <<>>]

RECURSIVE Without(_, _)
Without(s, x) ==
    IF s = <<>> THEN <<>>
    ELSE IF Head(s) = x THEN Tail(s)
    ELSE <<Head(s)>> \o Without(Tail(s), x)

\* ------------------------------------------------- StructuredDecision.ts
\* A text is the sequence of its pieces: Space is a run of white space, any
\* other piece a run of non-blank characters.
Space == " "

RECURSIVE trimStart(_)
trimStart(s) == IF s # <<>> /\ Head(s) = Space THEN trimStart(Tail(s)) ELSE s

RECURSIVE trimEnd(_)
trimEnd(s) ==
    IF s # <<>> /\ s[Len(s)] = Space THEN trimEnd(SubSeq(s, 1, Len(s) - 1)) ELSE s

\* String.prototype.trim
trim(s) == trimEnd(trimStart(s))

\* the characters of a text as one string
RECURSIVE text(_)
text(s) == IF s = <<>> THEN "" ELSE Head(s) \o text(Tail(s))

\* JSON values, by typeof; chars is the text of a string value
Str(s) == [type |-> "string", chars |-> s]
JUndefined == [type |-> "undefined", chars |-> <<>>]
JNull == [type |-> "null", chars |-> <<>>]
JNumber == [type |-> "number", chars |-> <<>>]
JArray == [type |-> "array", chars |-> <<>>]

\* value === undefined || value === null
isMissing(v) == v.type \in {"undefined", "null"}

\* typeof value !== "string" || !value.trim()
isBlankOrNotString(v) == v.type # "string" \/ trim(v.chars) = <<>>

\* What a function call produced: a returned value or a thrown error
Returned(v) == [ok |-> TRUE, value |-> v, error |-> NoMsg]
Thrown(msg) == [ok |-> FALSE, value |-> <<>>, error |-> msg]
Pending == [ok |-> FALSE, value |-> <<>>, error |-> "pending"]

RouteNoJsonMsg == "RouteDecision parse error: no JSON object found."
RouteInvalidJsonMsg == "RouteDecision parse error: invalid JSON structure."
RouteMissingStrategyMsg == "RouteDecision validation error: missing key 'strategy'."
RouteMissingRationaleMsg == "RouteDecision validation error: missing key 'rationale'."
RouteStrategyTypeMsg == "RouteDecision validation error: 'strategy' must be a string."
RouteStrategySetMsg ==
    "RouteDecision validation error: 'strategy' must be one of plan_then_parallel, direct_execution."
RouteRationaleMsg == "RouteDecision validation error: 'rationale' must be a non-empty string."
NullReadMsg == "Cannot read properties of null"
SyntaxErrorMsg == "Unexpected token"

ROUTE_ALLOWED_STRATEGIES == {"plan_then_parallel", "direct_execution"}

\* The forms of a raw model text, by what JSON.parse and extractFirstJsonObject
\* make of it:
\*   "object"     the whole text parses to an object
\*   "wrapped"    the whole text does not parse; the first balanced {...} does
\*   "broken"     the whole text does not parse; the first balanced {...} does not
\*   "unbalanced" the whole text does not parse; no "{" is ever closed
\*   "prose"      the text holds no "{"
\*   "scalar"     the whole text parses to a number, string, boolean or array
\*   "null"       the whole text parses to null
RawForms == {"object", "wrapped", "broken", "unbalanced", "prose", "scalar", "null"}

\* extractFirstJsonObject(raw) found a substring
extractFirstJsonObject(raw) == raw.form \in {"wrapped", "broken"}

\* the property key of the parsed value; a scalar has no own property
prop(raw, key) == IF raw.form \in {"object", "wrapped"} THEN raw[key] ELSE JUndefined

\* a variant that accepts any string as strategy
parseRouteDecisionAnyStrategy(raw) ==
    IF raw.form \in {"unbalanced", "prose"} THEN Thrown(RouteNoJsonMsg)
    ELSE IF raw.form = "broken" THEN Thrown(RouteInvalidJsonMsg)
    ELSE IF raw.form = "null" THEN Thrown(NullReadMsg)
    ELSE IF isMissing(prop(raw, "strategy")) THEN Thrown(RouteMissingStrategyMsg)
    ELSE IF isMissing(prop(raw, "rationale")) THEN Thrown(RouteMissingRationaleMsg)
    ELSE IF prop(raw, "strategy").type # "string" THEN Thrown(RouteStrategyTypeMsg)
    ELSE IF isBlankOrNotString(prop(raw, "rationale")) THEN Thrown(RouteRationaleMsg)
    ELSE Returned([strategy |-> text(trim(prop(raw, "strategy").chars)),
                   rationale |-> text(trim(prop(raw, "rationale").chars))])

\* parseRouteDecision(raw)
parseRouteDecision(raw) ==
    IF raw.form \in {"unbalanced", "prose"} THEN Thrown(RouteNoJsonMsg)
    ELSE IF raw.form = "broken" THEN Thrown(RouteInvalidJsonMsg)
    ELSE IF raw.form = "null" THEN Thrown(NullReadMsg)
    ELSE IF isMissing(prop(raw, "strategy")) THEN Thrown(RouteMissingStrategyMsg)
    ELSE IF isMissing(prop(raw, "rationale")) THEN Thrown(RouteMissingRationaleMsg)
    ELSE IF prop(raw, "strategy").type # "string" THEN Thrown(RouteStrategyTypeMsg)
    ELSE IF text(trim(prop(raw, "strategy").chars)) \notin ROUTE_ALLOWED_STRATEGIES
         THEN Thrown(RouteStrategySetMsg)
    ELSE IF isBlankOrNotString(prop(raw, "rationale")) THEN Thrown(RouteRationaleMsg)
    ELSE Returned([strategy |-> text(trim(prop(raw, "strategy").chars)),
                   rationale |-> text(trim(prop(raw, "rationale").chars))])

StructuredNoJsonMsg == "Structured parse error: no JSON object found."

StructuredMissingMsg(key) == "Structured parse error: missing key '" \o key \o "'"

\* the first key of requiredKeys whose value in the parsed object is undefined
RECURSIVE firstUndefined(_, _)
firstUndefined(raw, keys) ==
    IF keys = <<>> THEN "none"
    ELSE IF prop(raw, Head(keys)).type = "undefined" THEN Head(keys)
    ELSE firstUndefined(raw, Tail(keys))

\* parseStructured(raw, requiredKeys): the second JSON.parse is not wrapped, a
\* scalar answers undefined for every key, and reading a key of null is a
\* TypeError; the only test on a key is `=== undefined`
parseStructured(raw, keys) ==
    IF raw.form \in {"unbalanced", "prose"} THEN Thrown(StructuredNoJsonMsg)
    ELSE IF raw.form = "broken" THEN Thrown(SyntaxErrorMsg)
    ELSE IF raw.form = "null"
    THEN IF keys = <<>> THEN Returned([form |-> "null"]) ELSE Thrown(NullReadMsg)
    ELSE IF raw.form = "scalar"
    THEN IF keys = <<>> THEN Returned([form |-> "scalar"])
         ELSE Thrown(StructuredMissingMsg(Head(keys)))
    ELSE IF firstUndefined(raw, keys) # "none"
    THEN Thrown(StructuredMissingMsg(firstUndefined(raw, keys)))
    ELSE Returned([form |-> "object", strategy |-> raw.strategy, rationale |-> raw.rationale])

\* buildRepairInstruction(errorMessage): the instruction restates the error
buildRepairInstruction(msg) == [role |-> "user", content |-> <<"repair", msg>>]

\* ------------------------------------------------------ Planner (part_003)
NoId == "undefined"
PlanMissingRationaleMsg == "Plan validation error: missing key 'rationale'."
PlanMissingStepsMsg == "Plan validation error: missing key 'steps'."
PlanRationaleMsg == "Plan validation error: 'rationale' must be non-empty string."
PlanStepsArrayMsg == "Plan validation error: 'steps' must be an array."
PlanNoJsonMsg == "Plan parse error: no JSON object found."
PlanStepInvalidMsg == "Plan step invalid (not an object)."
PlanStepDescriptionMsg == "Plan step missing non-empty description."
PlanStepDependsOnMsg == "Plan step dependsOn must be an array if present."

\* typeof v === "string" ? v.trim() : undefined
trimmedOrUndefined(v) == IF v.type = "string" THEN text(trim(v.chars)) ELSE NoId

\* typeof s.id === "string" && s.id.trim() ? s.id.trim() : undefined
parsedId(v) == IF isBlankOrNotString(v) THEN NoId ELSE text(trim(v.chars))

\* the first error parsed.steps.forEach throws (NoMsg: none).  A raw step is
\* [object, id, description, agentId, parallelGroup, dependsOnType, dependsOn]
RECURSIVE firstStepError(_)
firstStepError(steps) ==
    IF steps = <<>> THEN NoMsg
    ELSE LET s == Head(steps) IN
         IF ~s.object THEN PlanStepInvalidMsg
         ELSE IF isBlankOrNotString(s.description) THEN PlanStepDescriptionMsg
         ELSE IF s.dependsOnType = "other" THEN PlanStepDependsOnMsg
         ELSE firstStepError(Tail(steps))

\* steps.push({...}) of parsePlanDecision
parsedStep(s) ==
    [id |-> parsedId(s.id),
     agentId |-> trimmedOrUndefined(s.agentId),
     parallelGroup |-> trimmedOrUndefined(s.parallelGroup),
     dependsOn |-> IF s.dependsOnType = "array" THEN s.dependsOn ELSE {}]

\* parsePlanDecision(raw); a raw text is [form, strategy, rationale, stepsType, steps]
parsePlanDecision(raw) ==
    IF raw.form \in {"unbalanced", "prose"} THEN Thrown(PlanNoJsonMsg)
    ELSE IF raw.form = "broken" THEN Thrown(SyntaxErrorMsg)
    ELSE IF raw.form = "null" THEN Thrown(NullReadMsg)
    ELSE IF isMissing(prop(raw, "rationale")) THEN Thrown(PlanMissingRationaleMsg)
    ELSE IF raw.stepsType \in {"undefined", "null"} THEN Thrown(PlanMissingStepsMsg)
    ELSE IF isBlankOrNotString(prop(raw, "rationale")) THEN Thrown(PlanRationaleMsg)
    ELSE IF raw.stepsType # "array" THEN Thrown(PlanStepsArrayMsg)
    ELSE IF firstStepError(raw.steps) # NoMsg THEN Thrown(firstStepError(raw.steps))
    ELSE Returned([rationale |-> text(trim(prop(raw, "rationale").chars)),
                   steps |-> [x \in 1..Len(raw.steps) |-> parsedStep(raw.steps[x])]])

\* `s${idx + 1}`, positions counted from 1
StepId(i) == "s" \o ToString(i)

\* id: s.id ?? `s${idx + 1}`
defaultedId(steps, i) == IF steps[i].id = NoId THEN StepId(i) ELSE steps[i].id

\* a uniqueness pass that renames the earlier holder of a colliding id
RECURSIVE enforceUniqueRenamesEarlier(_, _, _)
enforceUniqueRenamesEarlier(ids, i, seen) ==
    IF i > Len(ids) THEN ids
    ELSE IF ids[i] \in seen
         THEN LET j == CHOOSE x \in 1..(i - 1) : ids[x] = ids[i]
              IN enforceUniqueRenamesEarlier([ids EXCEPT ![j] = StepId(j)], i + 1,
                                             seen \cup {StepId(j)})
         ELSE enforceUniqueRenamesEarlier(ids, i + 1, seen \cup {ids[i]})

\* normalizedSteps.forEach((st, idx) => { if (seen.has(st.id)) st.id = `s${idx + 1}`;
\* seen.add(st.id) }), from position i on
RECURSIVE enforceUnique(_, _, _)
enforceUnique(ids, i, seen) ==
    IF i > Len(ids) THEN ids
    ELSE LET id == IF ids[i] \in seen THEN StepId(i) ELSE ids[i]
         IN enforceUnique([ids EXCEPT ![i] = id], i + 1, seen \cup {id})

\* the steps of the Plan invokePlanner returns for the parsed decision steps
normalizedSteps(steps) ==
    LET ids == enforceUnique([x \in 1..Len(steps) |-> defaultedId(steps, x)], 1, {})
    IN [x \in 1..Len(steps) |->
          [id |-> ids[x],
           agentId |-> steps[x].agentId,
           parallelGroup |-> steps[x].parallelGroup,
           dependsOn |-> steps[x].dependsOn,
           status |-> "pending",
           errorMessage |-> NoMsg]]

\* const cap = ctx.maxSteps ?? 12: the cap buildPlanPrompt writes into the
\* prompt ("Hard cap steps: ${cap}"); maxSteps is read nowhere else
DefaultStepCap == 12

\* maxSteps is not configured
NoCap == -1

stepCap(maxSteps) == IF maxSteps = NoCap THEN DefaultStepCap ELSE maxSteps

\* what invokePlanner ends with when the model answers raw to the prompt with
\* the cap in it, on every attempt, and the attempt callback returns: the Plan
\* of the parsed decision, or the attempts-exhausted error
invokePlanner(raw, maxSteps) ==
    LET decided == parsePlanDecision(raw)
    IN IF decided.ok
       THEN Returned([rationale |-> decided.value.rationale,
                      steps |-> normalizedSteps(decided.value.steps)])
       ELSE Thrown(decided.error)

\* ------------- the repair loops: acquireRouteDecision and invokePlanner
Loops == {"route", "planner"}

\* the ceiling is not configured
Unset == -1

DefaultMaxAttempts == 3

\* const maxAttempts = this.cfg.routeDecisionMaxAttempts || 3   (route)
\* const maxAttempts = opts.maxAttempts ?? 3                    (planner)
ceiling(l) ==
    IF maxAttempts[l] = Unset THEN DefaultMaxAttempts
    ELSE IF l = "route" /\ maxAttempts[l] = 0 THEN DefaultMaxAttempts
    ELSE maxAttempts[l]

\* cfg.onRouteDecisionAttempt / opts.onAttempt (run passes cfg.onPlanAttempt)
attemptHook(l) == IF l = "route" THEN "onRouteDecisionAttempt" ELSE "onPlanAttempt"

parseOf(l, raw) == IF l = "route" THEN parseRouteDecision(raw) ELSE parsePlanDecision(raw)

SystemMessage == [role |-> "system", content |-> <<"system">>]
PromptMessage == [role |-> "user", content |-> <<"prompt">>]

LlmMsg == "llm failed"

\* repair messages with the instruction ahead of the raw output
repairMessagesInstructionFirst(r, msg) ==
    <<buildRepairInstruction(msg), [role |-> "assistant", content |-> r]>>

\* The messages a failed attempt appends when another attempt follows
repairMessages(r, msg) ==
    <<[role |-> "assistant", content |-> r], buildRepairInstruction(msg)>>

\* const raw = resp.text || "": the text of the last response
lastRaw == response[Len(response)]

\* Entry of the loop up to its first llm.chat call
StartRepair(l) ==
    /\ loop' = l
    /\ attempt' = 1
    /\ messages' = <<SystemMessage, PromptMessage>>
    /\ lastError' = NoMsg
    /\ decision' = Pending
    /\ raised' = IF 1 <= ceiling(l) THEN <<>> ELSE <<"attempts exhausted", NoMsg>>
    /\ rpc' = IF 1 <= ceiling(l) THEN "call" ELSE "failed"
    /\ UNCHANGED <<maxAttempts, llmCalls, response, throwing>>

\* await llm.chat(messages, { temperature: 0 }) resolves with text r
LlmRespond(r) ==
    /\ rpc = "call"
    /\ response' = Append(response, r)
    /\ llmCalls' = [llmCalls EXCEPT ![loop] = @ + 1]
    /\ rpc' = "parse"
    /\ UNCHANGED <<nonRepairVars, loop, maxAttempts, attempt, messages, lastError, decision, raised,
                   throwing>>

\* llm.chat rejects: the call is outside the try block, the loop's caller gets
\* the rejection
LlmRejects ==
    /\ rpc = "call"
    /\ "llm.chat" \in throwing
    /\ llmCalls' = [llmCalls EXCEPT ![loop] = @ + 1]
    /\ raised' = <<LlmMsg>>
    /\ rpc' = "failed"
    /\ UNCHANGED <<nonRepairVars, loop, maxAttempts, attempt, messages, response, lastError, decision,
                   throwing>>

\* try { decision = parse(raw); await onAttempt?.(raw, undefined, attempt); ... }
\* with a parse that returns and a callback that returns
ParseAccepts ==
    /\ rpc = "parse"
    /\ parseOf(loop, lastRaw).ok
    /\ decision' = parseOf(loop, lastRaw)
    /\ rpc' = "returned"
    /\ UNCHANGED <<nonRepairVars, loop, maxAttempts, attempt, llmCalls, messages, response, lastError,
                   raised, throwing>>

\* the parse returns and the callback throws inside the try block: control
\* goes to the catch block with the callback's error.  The planner has already
\* assigned decision; the route loop's decision is a const of the try block.
ParseAcceptsHookThrows ==
    /\ rpc = "parse"
    /\ parseOf(loop, lastRaw).ok
    /\ attemptHook(loop) \in throwing
    /\ decision' = IF loop = "planner" THEN parseOf(loop, lastRaw) ELSE decision
    /\ lastError' = HookMsg
    /\ rpc' = "catch"
    /\ UNCHANGED <<nonRepairVars, loop, maxAttempts, attempt, llmCalls, messages, response, raised,
                   throwing>>

\* the parse throws: lastError = err.message
ParseRejects ==
    /\ rpc = "parse"
    /\ ~parseOf(loop, lastRaw).ok
    /\ lastError' = parseOf(loop, lastRaw).error
    /\ rpc' = "catch"
    /\ UNCHANGED <<nonRepairVars, loop, maxAttempts, attempt, llmCalls, messages, response, decision,
                   raised, throwing>>

\* catch block with a callback that returns: append the repair messages when
\* another attempt follows, attempt++, and leave the loop when it is exhausted
CatchContinues ==
    /\ rpc = "catch"
    /\ messages' = IF attempt < ceiling(loop) THEN messages \o repairMessages(lastRaw, lastError)
                   ELSE messages
    /\ attempt' = attempt + 1
    /\ IF attempt < ceiling(loop)
       THEN rpc' = "call" /\ UNCHANGED raised
       ELSE IF loop = "planner" /\ decision.ok
       THEN rpc' = "returned" /\ UNCHANGED raised
       ELSE rpc' = "failed" /\ raised' = <<"attempts exhausted", lastError>>
    /\ UNCHANGED <<nonRepairVars, loop, maxAttempts, llmCalls, response, lastError, decision, throwing>>

\* catch block with a callback that throws: nothing catches it
CatchHookThrows ==
    /\ rpc = "catch"
    /\ attemptHook(loop) \in throwing
    /\ raised' = <<HookMsg>>
    /\ rpc' = "failed"
    /\ UNCHANGED <<nonRepairVars, loop, maxAttempts, attempt, llmCalls, messages, response, lastError,
                   decision, throwing>>

\* the Plan invokePlanner resolves with
plannedSteps == normalizedSteps(decision.value.steps)

\* ----------------------------------------------- texts a model may return
MaxPieces == 2
MaxAttempts == 2

\* the largest step cap a planner call is given
MaxStepCap == 2

Word(w) == Str(<<w>>)

Texts(pieces) == UNION {[1..n -> pieces] : n \in 0..MaxPieces}

NonStrings == {JUndefined, JNull, JNumber, JArray}

StrategyValues ==
    NonStrings \cup {Str(s) : s \in Texts({Space, "plan_then_parallel", "direct_execution", "x"})}

RationaleValues == NonStrings \cup {Str(s) : s \in Texts({Space, "why"})}

RouteText(f, s, r) ==
    [form |-> f, strategy |-> s, rationale |-> r, stepsType |-> "undefined", steps |-> <<>>]

PlanText(f, r, t, st) ==
    [form |-> f, strategy |-> JUndefined, rationale |-> r, stepsType |-> t, steps |-> st]

ProseText == RouteText("prose", JUndefined, JUndefined)

RouteTexts ==
    {RouteText(f, s, r) : f \in {"object", "wrapped"}, s \in StrategyValues,
                          r \in RationaleValues}
    \cup {RouteText(f, JUndefined, JUndefined) : f \in RawForms \ {"object", "wrapped"}}

RawStep(id, grp, dt, deps) ==
    [object |-> TRUE, id |-> id, description |-> Word("do"), agentId |-> JUndefined,
     parallelGroup |-> grp, dependsOnType |-> dt, dependsOn |-> deps]

\* two independent steps in one parallel group (part_000:110-117)
TwoStepText ==
    PlanText("object", Word("two"), "array",
             <<RawStep(Word("s1"), Word("g"), "undefined", {}),
               RawStep(Word("s2"), Word("g"), "undefined", {})>>)

\* a step without description
BadStepText ==
    PlanText("wrapped", Word("bad"), "array",
             <<[RawStep(Word("s1"), JUndefined, "undefined", {}) EXCEPT
                  !.description = Str(<<Space>>)]>>)

\* the texts the model returns to a repair loop
LoopTexts ==
    {RouteText("object", Word("plan_then_parallel"), Word("why")),
     RouteText("wrapped", Str(<<"direct_execution", Space>>), Word("why")),
     RouteText("object", Word("x"), Word("why")),
     ProseText, TwoStepText, BadStepText}

Ceilings == {Unset} \cup 0..MaxAttempts

\* ------------------------- ToolAllowlistEnforcer (ShortTermMemory.ts)
ToolAgents == {"a", "b"}
Tools == {"x", "y"}

\* AgentToolPolicy; hasList is false when allowedToolIds is undefined
Policy(a, has, ids) == [agentId |-> a, hasList |-> has, allowedToolIds |-> ids]

Allowed == [allowed |-> TRUE, reason |-> <<>>]

\* `Tool '${ctx.toolName}' not in allowlist for agent '${ctx.agentId}'.`
Denied(ctx) ==
    [allowed |-> FALSE,
     reason |-> <<"Tool", ctx.toolName, "not in allowlist for agent", ctx.agentId>>]

NoVerdict == [ctx |-> <<>>, decision |-> <<>>]

\* check that takes an empty list for "nothing allowed"
checkEmptyDenies(pm, ctx) ==
    IF ctx.agentId \notin DOMAIN pm THEN Allowed
    ELSE IF ~pm[ctx.agentId].hasList THEN Allowed
    ELSE IF ctx.toolName \in pm[ctx.agentId].allowedToolIds THEN Allowed
    ELSE Denied(ctx)

\* check(ctx) on the policy map pm
check(pm, ctx) ==
    IF ctx.agentId \notin DOMAIN pm THEN Allowed
    ELSE LET list == IF pm[ctx.agentId].hasList THEN pm[ctx.agentId].allowedToolIds ELSE {}
         IN IF list = {} THEN Allowed
            ELSE IF ctx.toolName \in list THEN Allowed
            ELSE Denied(ctx)

\* this.policyMap.set(policy.agentId, policy)
mapSet(pm, p) ==
    [a \in DOMAIN pm \cup {p.agentId} |-> IF a = p.agentId THEN p ELSE pm[a]]

\* removePolicy that drops every policy
mapDeleteAll(pm, a) == <<>>

\* this.policyMap.delete(agentId)
mapDelete(pm, a) == [b \in DOMAIN pm \ {a} |-> pm[b]]

\* new Map(policies.map((p) => [p.agentId, p])): a later entry replaces an
\* earlier one of the same agent
RECURSIVE mapOf(_)
mapOf(policies) ==
    IF policies = <<>> THEN <<>>
    ELSE mapSet(mapOf(SubSeq(policies, 1, Len(policies) - 1)), policies[Len(policies)])

Check(ctx) ==
    /\ calls # <<>>
    /\ verdict' = [ctx |-> ctx, decision |-> check(policyMap, ctx)]
    /\ UNCHANGED <<policyMap, calls, nonAllowVars>>

UpsertPolicy(p) ==
    /\ calls # <<>>
    /\ Len(calls) <= MaxCalls
    /\ policyMap' = mapSet(policyMap, p)
    /\ calls' = Append(calls, [op |-> "upsertPolicy", agentId |-> p.agentId, policies |-> <<p>>])
    /\ verdict' = NoVerdict
    /\ UNCHANGED nonAllowVars

RemovePolicy(a) ==
    /\ calls # <<>>
    /\ Len(calls) <= MaxCalls
    /\ policyMap' = mapDelete(policyMap, a)
    /\ calls' = Append(calls, [op |-> "removePolicy", agentId |-> a, policies |-> <<>>])
    /\ verdict' = NoVerdict
    /\ UNCHANGED nonAllowVars

\* ------------------------------------- CrewOrchestrator state (part_002)
\* CrewAgent: enabled is false only when the agent says enabled: false
Agent(id, enabled, reflectionRole, grp) ==
    [id |-> id, enabled |-> enabled, reflectionRole |-> reflectionRole, parallelGroup |-> grp]

\* the crew resolved at construction, with the executionPolicies the
\* orchestrator reads (an Unset policy is not configured)
Crew(agents, conc, loops, cycles) ==
    [resolved |-> TRUE, id |-> "crew1", default |-> FALSE, agents |-> agents,
     maxConcurrentAgents |-> conc, maxAgentLoops |-> loops, maxReflectionCycles |-> cycles]

\* this.crew is undefined
NoCrew ==
    [resolved |-> FALSE, id |-> "undefined", default |-> FALSE, agents |-> <<>>,
     maxConcurrentAgents |-> Unset, maxAgentLoops |-> Unset, maxReflectionCycles |-> Unset]

\* the global state: getGlobalState("crews"), getGlobalState("selectedCrewId")
Store(crews, selected) == [crews |-> crews, selectedCrewId |-> selected]

\* a resolution that prefers the entry flagged default to the selected one
resolveCrewDefaultFirst(st) ==
    LET cs == st.crews
        sel == {x \in 1..Len(cs) : cs[x].id = st.selectedCrewId}
        def == {x \in 1..Len(cs) : cs[x].default}
        first(S) == CHOOSE x \in S : \A y \in S : x <= y
    IN IF def # {} THEN cs[first(def)]
       ELSE IF sel # {} THEN cs[first(sel)]
       ELSE IF cs # <<>> THEN cs[1]
       ELSE NoCrew

\* crews.find((c) => c.id === selectedCrewId) || crews.find((c) => c.default) || crews[0]
resolveCrew(st) ==
    LET cs == st.crews
        sel == {x \in 1..Len(cs) : cs[x].id = st.selectedCrewId}
        def == {x \in 1..Len(cs) : cs[x].default}
        first(S) == CHOOSE x \in S : \A y \in S : x <= y
    IN IF sel # {} THEN cs[first(sel)]
       ELSE IF def # {} THEN cs[first(def)]
       ELSE IF cs # <<>> THEN cs[1]
       ELSE NoCrew

\* agents.filter((a) => a.enabled !== false && !a.reflectionRole)
workAgents(c) == SelectSeq(c.agents, LAMBDA a : a.enabled /\ ~a.reflectionRole)

\* parallel.maxConcurrentAgents && parallel.maxConcurrentAgents > 0 ? ... : 1
maxConcurrentOf(c) ==
    IF c.maxConcurrentAgents # Unset /\ c.maxConcurrentAgents > 0
    THEN c.maxConcurrentAgents ELSE 1

DefaultMaxEntries == 200

\* pushEntry that drops the newest entries beyond maxEntries
pushEntryKeepsOldest(mem, e) ==
    LET n == Append(mem, e)
    IN IF Len(n) > maxEntries THEN SubSeq(n, 1, maxEntries) ELSE n

\* ShortTermMemory.pushEntry: append, then drop the oldest beyond maxEntries
pushEntry(mem, e) ==
    LET n == Append(mem, e)
    IN IF Len(n) > maxEntries
       THEN SubSeq(n, Len(n) - maxEntries + 1, Len(n)) ELSE n

\* appendThought(content)
Thought(content) == [type |-> "thought", content |-> content, success |-> "undefined"]

\* appendObservation({ content, success })
Observation(content, ok) ==
    [type |-> "observation", content |-> content, success |-> IF ok THEN "true" ELSE "false"]

RECURSIVE pushAll(_, _)
pushAll(mem, es) == IF es = <<>> THEN mem ELSE pushAll(pushEntry(mem, Head(es)), Tail(es))

MAX_AGENT_LOOPS == "MAX_AGENT_LOOPS"
MAX_REFLECTION_CYCLES == "MAX_REFLECTION_CYCLES"

\* private termination: TerminationState = { agentLoopCounts: {}, ... }
NoTermination ==
    [agentLoopCounts |-> [a \in ToolAgents |-> 0], reflectionCycles |-> 0,
     terminated |-> FALSE, reason |-> "undefined", terminationDetail |-> "undefined"]

\* setTerminated(reason, detail) on termination state t
setTerminated(t, reason, detail) ==
    IF ~t.terminated
    THEN [t EXCEPT !.terminated = TRUE, !.reason = reason, !.terminationDetail = detail]
    ELSE t

\* a ceiling that is configured and not 0: if (maxLoops && ...)
limited(max) == max # Unset /\ max # 0

agentLoopDetail(a, max) ==
    "agent " \o a \o " exceeded maxAgentLoops (" \o ToString(max) \o ")"

reflectionDetail(max) == "exceeded maxReflectionCycles (" \o ToString(max) \o ")"

\* incrementAgentLoop that counts and trips whether or not the run is
\* terminated already, writing the reason itself
incrementAgentLoopNoLatch(t, a) ==
    LET t1 == [t EXCEPT !.agentLoopCounts[a] = @ + 1]
        max == crew.maxAgentLoops
    IN IF limited(max) /\ t1.agentLoopCounts[a] > max
       THEN [t1 EXCEPT !.terminated = TRUE, !.reason = MAX_AGENT_LOOPS,
                       !.terminationDetail = agentLoopDetail(a, max)]
       ELSE t1

\* the termination state incrementAgentLoop(agentId) leaves
incrementAgentLoop(t, a) ==
    IF t.terminated THEN t
    ELSE LET t1 == [t EXCEPT !.agentLoopCounts[a] = @ + 1]
             max == crew.maxAgentLoops
         IN IF limited(max) /\ t1.agentLoopCounts[a] > max
            THEN setTerminated(t1, MAX_AGENT_LOOPS, agentLoopDetail(a, max))
            ELSE t1

\* incrementReflectionCycle that trips on reaching the ceiling instead of on
\* exceeding it
incrementReflectionCycleAtCeiling(t) ==
    IF t.terminated THEN t
    ELSE LET t1 == [t EXCEPT !.reflectionCycles = @ + 1]
             max == crew.maxReflectionCycles
         IN IF limited(max) /\ t1.reflectionCycles >= max
            THEN setTerminated(t1, MAX_REFLECTION_CYCLES, reflectionDetail(max))
            ELSE t1

\* the termination state incrementReflectionCycle() leaves
incrementReflectionCycle(t) ==
    IF t.terminated THEN t
    ELSE LET t1 == [t EXCEPT !.reflectionCycles = @ + 1]
             max == crew.maxReflectionCycles
         IN IF limited(max) /\ t1.reflectionCycles > max
            THEN setTerminated(t1, MAX_REFLECTION_CYCLES, reflectionDetail(max))
            ELSE t1

\* checkTermination() that never reports the latch
checkTerminationNever == FALSE

\* checkTermination(): return this.termination.terminated
checkTermination == termination.terminated

\* what either increment method returns: false when the run was terminated
\* before the call or is terminated by it
continues(t, t1) == ~t.terminated /\ ~t1.terminated

NoRunOut ==
    [strategy |-> "undefined", planGenerated |-> FALSE, generatedVia |-> "undefined",
     rationale |-> "undefined", parallelBatchesExecuted |-> -1, terminationEarly |-> FALSE,
     terminationReason |-> "undefined", terminationDetail |-> "undefined", error |-> NoMsg]

IdleOrchWith(c) ==
    /\ store = Store(IF c.resolved THEN <<c>> ELSE <<>>, "undefined")
    /\ maxEntries = DefaultMaxEntries
    /\ appended = <<>>
    /\ crew = c
    /\ termination = NoTermination
    /\ memory = <<>>
    /\ telemetry = <<>>
    /\ lastReturn = "undefined"
    /\ opc = "idle"
    /\ runOut = NoRunOut
    /\ listener = "none"

IdleOrch == IdleOrchWith(NoCrew)

\* ------------------------------------------------------ idle components
IdleFn ==
    /\ fn = "none"
    /\ arg = <<>>
    /\ ret = Pending

IdleRepair ==
    /\ loop = "none"
    /\ maxAttempts = [l \in Loops |-> Unset]
    /\ attempt = 0
    /\ llmCalls = [l \in Loops |-> 0]
    /\ messages = <<>>
    /\ response = <<>>
    /\ lastError = NoMsg
    /\ decision = Pending
    /\ raised = <<>>
    /\ rpc = "idle"
    /\ throwing = {}

IdleAllow ==
    /\ policyMap = <<>>
    /\ calls = <<>>
    /\ verdict = NoVerdict

\* createCheckpointTagWrapper(undefined): no tracker, no commit is ever made
NoTracker ==
    /\ tracker = "none"
    /\ commits = <<>>

IdleBatch ==
    /\ maxConcurrent = 1
    /\ hooks = {}
    /\ work = <<>>
    /\ stage = <<>>
    /\ batchOf = <<>>
    /\ outcome = <<>>
    /\ queue = <<>>
    /\ inFlight = <<>>
    /\ results = <<>>
    /\ awaited = {}
    /\ summary = NoSummary
    /\ bpc = "idle"

IdleDag ==
    /\ plan = <<>>
    /\ factory = "none"
    /\ dpc = "none"
    /\ waves = 0
    /\ executed = 0
    /\ groups = <<>>
    /\ gi = 0
    /\ mi = 0
    /\ rk = 0
    /\ waveLog = <<>>
    /\ waveOf = <<>>
    /\ runResult = NoRunResult

\* ------------------------------------------------- ParallelExecutor.ts
\* executeItem whose catch block records no message
executeItemLosesMessage(i, o) ==
    [item |-> i,
     agentId |-> work[i].agentId,
     phase |-> work[i].phase,
     success |-> (o = "ok"),
     errorMessage |-> IF o = "fail" THEN ReturnedMsg ELSE NoMsg]

\* executeItem: the result entry for item i whose action ended as o.  A raising
\* action is caught and becomes a failed entry carrying the raised message.
executeItem(i, o) ==
    [item |-> i,
     agentId |-> work[i].agentId,
     phase |-> work[i].phase,
     success |-> (o = "ok"),
     errorMessage |-> CASE o = "ok" -> NoMsg
                        [] o = "fail" -> ReturnedMsg
                        [] OTHER -> RaisedMsg]

\* The entry launchNext's catch handler pushes when the then handler rejected.
catchEntry(i) ==
    [item |-> i,
     agentId |-> work[i].agentId,
     phase |-> work[i].phase,
     success |-> FALSE,
     errorMessage |-> HookMsg]

\* The initial pool without the ceiling
initialPoolUncapped(b) == Len(queue[b])

\* const initial = Math.min(this.maxConcurrent, queue.length)
initialPool(b) == Min(maxConcurrent, Len(queue[b]))

\* How many items the finally handler launches: if (queue.length) launchNext()
refill(b) == IF Len(queue[b]) > 0 THEN 1 ELSE 0

\* launchNext, n times on call b: shift the item, start its action, push its
\* promise on inFlight.
launchNext(st, b, n) ==
    /\ stage' = [j \in Items |->
                   IF \E x \in 1..n : queue[b][x] = j THEN "running" ELSE st[j]]
    /\ queue' = [queue EXCEPT ![b] = SubSeq(@, n + 1, Len(@))]

\* runBatch up to its first await: copy the work items into a fresh queue and
\* call onStartBatch.
StartBatch(items) ==
    /\ queue' = Append(queue, items)
    /\ inFlight' = Append(inFlight, <<>>)
    /\ results' = Append(results, <<>>)
    /\ awaited' = {}
    /\ summary' = NoSummary
    /\ bpc' = "starting"
    /\ stage' = [j \in Items |-> IF j \in Range(items) THEN "queued" ELSE stage[j]]
    /\ batchOf' = [j \in Items |-> IF j \in Range(items) THEN cur + 1 ELSE batchOf[j]]

\* A direct caller (executeDirectExecution) submits all its work as one batch.
CallRunBatch ==
    /\ dpc = "none"
    /\ bpc = "idle"
    /\ StartBatch([x \in 1..Cardinality(Items) |-> x])
    /\ UNCHANGED <<crewVars, execVars, work, outcome, dagVars>>

\* await this.onStartBatch?.(queue.length) threw: runBatch rejects.
BatchStartRejected ==
    /\ bpc = "starting"
    /\ "onStartBatch" \in hooks
    /\ bpc' = "rejected"
    /\ UNCHANGED <<crewVars, execVars, itemVars, queue, inFlight, results, awaited, summary,
                   dagVars>>

\* Prime the initial pool, then Promise.all(inFlight) over the promises that
\* are in the array at this moment.
BatchPrime ==
    /\ bpc = "starting"
    /\ LET n == initialPool(cur) IN
        /\ launchNext(stage, cur, n)
        /\ inFlight' = [inFlight EXCEPT ![cur] = @ \o SubSeq(queue[cur], 1, n)]
        /\ awaited' = {queue[cur][x] : x \in 1..n}
    /\ bpc' = "awaiting"
    /\ UNCHANGED <<crewVars, execVars, work, batchOf, outcome, results, summary, dagVars>>

\* The action of a running item completes: it resolves with success, resolves
\* with success = false, or raises.
ItemFinish(i, o) ==
    /\ stage[i] = "running"
    /\ tracker = "none" \/ o = "raise"
    /\ stage' = [stage EXCEPT ![i] = "finished"]
    /\ outcome' = [outcome EXCEPT ![i] = o]
    /\ UNCHANGED <<crewVars, execVars, work, batchOf, batchVars, dagVars>>

\* withCheckpointTag with a tracker: const result = await fn() resolved, with
\* success or with success = false; tracker.commit(prefix) is called next
ItemActionResolves(i, o) ==
    /\ stage[i] = "running"
    /\ tracker # "none"
    /\ o # "raise"
    /\ stage' = [stage EXCEPT ![i] = "committing"]
    /\ outcome' = [outcome EXCEPT ![i] = o]
    /\ UNCHANGED <<crewVars, execVars, work, batchOf, batchVars, dagVars>>

\* a wrapper that lets a rejected commit escape: the item ends as if its
\* action had raised
withCheckpointTagPropagates(o, rejected) == IF rejected THEN "raise" ELSE o

\* how the wrapped action ends for executeItem when the action resolved as o
\* and the commit was rejected or not: try { await tracker.commit } catch {}
\* return result
withCheckpointTag(o, rejected) == o

\* await tracker.commit(...) resolves: return result
ItemCommit(i) ==
    /\ stage[i] = "committing"
    /\ commits' = [commits EXCEPT ![i] = Append(@, "resolved")]
    /\ stage' = [stage EXCEPT ![i] = "finished"]
    /\ outcome' = [outcome EXCEPT ![i] = withCheckpointTag(@, FALSE)]
    /\ UNCHANGED <<fnVars, repairVars, allowVars, orchVars, store, maxEntries, appended, tracker,
                   execVars, work, batchOf, batchVars, dagVars>>

\* await tracker.commit(...) rejects: catch {} swallows it; return result
ItemCommitFails(i) ==
    /\ stage[i] = "committing"
    /\ tracker = "failing"
    /\ commits' = [commits EXCEPT ![i] = Append(@, "rejected")]
    /\ stage' = [stage EXCEPT ![i] = "finished"]
    /\ outcome' = [outcome EXCEPT ![i] = withCheckpointTag(@, TRUE)]
    /\ UNCHANGED <<fnVars, repairVars, allowVars, orchVars, store, maxEntries, appended, tracker,
                   execVars, work, batchOf, batchVars, dagVars>>

\* .then: results.push(res); return this.onResult?.(res)
ItemThen(i) ==
    /\ stage[i] = "finished"
    /\ results' = [results EXCEPT ![batchOf[i]] = Append(@, executeItem(i, outcome[i]))]
    /\ stage' = [stage EXCEPT ![i] = "pushed"]
    /\ UNCHANGED <<crewVars, execVars, work, batchOf, outcome, queue, inFlight, awaited,
                   summary, bpc, dagVars>>

\* .then, when onResult throws or rejects: the chain goes on to .catch
ItemThenHookThrows(i) ==
    /\ stage[i] = "finished"
    /\ "onResult" \in hooks
    /\ results' = [results EXCEPT ![batchOf[i]] = Append(@, executeItem(i, outcome[i]))]
    /\ stage' = [stage EXCEPT ![i] = "hookThrew"]
    /\ UNCHANGED <<crewVars, execVars, work, batchOf, outcome, queue, inFlight, awaited,
                   summary, bpc, dagVars>>

\* .catch: push a failed result for the item
ItemCatch(i) ==
    /\ stage[i] = "hookThrew"
    /\ results' = [results EXCEPT ![batchOf[i]] = Append(@, catchEntry(i))]
    /\ stage' = [stage EXCEPT ![i] = "pushed"]
    /\ UNCHANGED <<crewVars, execVars, work, batchOf, outcome, queue, inFlight, awaited,
                   summary, bpc, dagVars>>

\* .finally: remove self from inFlight, launch the next queued item if any
ItemFinally(i) ==
    /\ stage[i] = "pushed"
    /\ LET b == batchOf[i]
           n == refill(b)
       IN /\ launchNext([stage EXCEPT ![i] = "settled"], b, n)
          /\ inFlight' = [inFlight EXCEPT ![b] = Without(@, i) \o SubSeq(queue[b], 1, n)]
    /\ UNCHANGED <<crewVars, execVars, work, batchOf, outcome, results, awaited, summary, bpc,
                   dagVars>>

\* Promise.all resolved: build the summary and call onFinishBatch.
BatchSummary ==
    /\ bpc = "awaiting"
    /\ \A i \in awaited : stage[i] = "settled"
    /\ summary' = [succeeded |-> SelectSeq(results[cur], LAMBDA r : r.success),
                   failed |-> SelectSeq(results[cur], LAMBDA r : ~r.success),
                   built |-> TRUE]
    /\ bpc' = "finishing"
    /\ UNCHANGED <<crewVars, execVars, itemVars, queue, inFlight, results, awaited, dagVars>>

\* await this.onFinishBatch?.(summary) threw: runBatch rejects.
BatchFinishRejected ==
    /\ bpc = "finishing"
    /\ "onFinishBatch" \in hooks
    /\ bpc' = "rejected"
    /\ UNCHANGED <<crewVars, execVars, itemVars, queue, inFlight, results, awaited, summary,
                   dagVars>>

\* return summary
BatchReturn ==
    /\ bpc = "finishing"
    /\ bpc' = "returned"
    /\ UNCHANGED <<crewVars, execVars, itemVars, queue, inFlight, results, awaited, summary,
                   dagVars>>

\* ------------------------------------------------ the batch executor alone
\* runBatch only copies agentId and phase into the result entries: the items
\* of a batch alternate between two agents and phases.
WorkList(n) ==
    [i \in 1..n |-> IF i % 2 = 1 THEN [agentId |-> "a", phase |-> "execution"]
                                 ELSE [agentId |-> "b", phase |-> "reflection"]]

\* a batch of up to MaxItems items on an executor with any ceiling and hooks
BatchSetup ==
    /\ IdleFn
    /\ IdleRepair
    /\ IdleAllow
    /\ IdleOrch
    /\ maxConcurrent \in 1..MaxCeiling
    /\ hooks \in {{}, HookNames}
    /\ \E n \in 0..MaxItems :
        /\ work = WorkList(n)
        /\ stage = [i \in 1..n |-> "new"]
        /\ batchOf = [i \in 1..n |-> 0]
        /\ outcome = [i \in 1..n |-> "unset"]
        /\ waveOf = [i \in 1..n |-> -1]
    /\ queue = <<>>
    /\ inFlight = <<>>
    /\ results = <<>>
    /\ awaited = {}
    /\ summary = NoSummary
    /\ bpc = "idle"
    /\ plan = <<>>
    /\ factory = "none"
    /\ dpc = "none"
    /\ waves = 0
    /\ executed = 0
    /\ groups = <<>>
    /\ gi = 0
    /\ mi = 0
    /\ rk = 0
    /\ waveLog = <<>>
    /\ runResult = NoRunResult

InitBatch ==
    /\ BatchSetup
    /\ NoTracker

NextBatch ==
    \/ CallRunBatch
    \/ BatchStartRejected
    \/ BatchPrime
    \/ \E i \in Items, o \in Outcomes : ItemFinish(i, o)
    \/ \E i \in Items : ItemThen(i)
    \/ \E i \in Items : ItemThenHookThrows(i)
    \/ \E i \in Items : ItemCatch(i)
    \/ \E i \in Items : ItemFinally(i)
    \/ BatchSummary
    \/ BatchFinishRejected
    \/ BatchReturn

SpecBatch == InitBatch /\ [][NextBatch]_vars

\* ------------------------ the batch executor with a checkpoint tracker
\* a tracker whose commit resolves, or one whose commit may reject
InitCheckpoint ==
    /\ BatchSetup
    /\ tracker \in {"ok", "failing"}
    /\ commits = [i \in Items |-> <<>>]

NextCheckpoint ==
    \/ CallRunBatch
    \/ BatchStartRejected
    \/ BatchPrime
    \/ \E i \in Items, o \in Outcomes : ItemFinish(i, o)
    \/ \E i \in Items, o \in Outcomes : ItemActionResolves(i, o)
    \/ \E i \in Items : ItemCommit(i)
    \/ \E i \in Items : ItemCommitFails(i)
    \/ \E i \in Items : ItemThen(i)
    \/ \E i \in Items : ItemThenHookThrows(i)
    \/ \E i \in Items : ItemCatch(i)
    \/ \E i \in Items : ItemFinally(i)
    \/ BatchSummary
    \/ BatchFinishRejected
    \/ BatchReturn

SpecCheckpoint == InitCheckpoint /\ [][NextCheckpoint]_vars

\* ------------------------------------- PlanDAGExecutor (ToolInvocation.ts)
Steps == DOMAIN plan

\* depDone that accepts a failed dependency
depDoneOrError(d) ==
    \E j \in Steps :
        /\ plan[j].id = d
        /\ \A j2 \in Steps : plan[j2].id = d => j2 <= j
        /\ plan[j].status \in {"done", "error"}

\* stepIndex.get(d)?.status === "done": the Map keeps the last step set under d
depDone(d) ==
    \E j \in Steps :
        /\ plan[j].id = d
        /\ \A j2 \in Steps : plan[j2].id = d => j2 <= j
        /\ plan[j].status = "done"

\* isReady without the status test
isReadyAnyStatus(s) == \A d \in plan[s].dependsOn : depDone(d)

isReady(s) ==
    /\ plan[s].status = "pending"
    /\ \A d \in plan[s].dependsOn : depDone(d)

\* plan.steps.filter(isReady), in plan order
readySteps == SelectSeq([x \in 1..Len(plan) |-> x], isReady)

\* plan.steps.filter((s) => s.status !== "done" && s.status !== "error")
remaining == {s \in Steps : plan[s].status \notin {"done", "error"}}

\* const key = s.parallelGroup || "__default"
groupKey(s) ==
    IF plan[s].parallelGroup = NoGroup THEN DefaultGroupKey ELSE plan[s].parallelGroup

\* The keys of the groups Map, in insertion order
RECURSIVE groupKeys(_, _)
groupKeys(rdy, seen) ==
    IF rdy = <<>> THEN <<>>
    ELSE IF groupKey(Head(rdy)) \in seen THEN groupKeys(Tail(rdy), seen)
    ELSE <<groupKey(Head(rdy))>> \o groupKeys(Tail(rdy), seen \cup {groupKey(Head(rdy))})

groupsOf(rdy) ==
    LET keys == groupKeys(rdy, {})
    IN [x \in 1..Len(keys) |-> SelectSeq(rdy, LAMBDA s : groupKey(s) = keys[x])]

\* The crew's first enabled non-reflection agent (executePlanThenParallel)
DefaultAgent == IF workAgents(crew) = <<>> THEN NoAgent ELSE workAgents(crew)[1].id

\* a crew of two enabled workers without policies (part_000:8-35)
TwoWorkers ==
    Crew(<<Agent("a", TRUE, FALSE, "g"), Agent("b", TRUE, FALSE, "g")>>, Unset, Unset, Unset)

\* step.agentId after buildWork(step): the orchestrator's factory assigns the
\* default agent to a step that has none; the tests' factory leaves the step alone.
assignedAgent(s) ==
    IF factory = "crew" /\ plan[s].agentId = NoAgent THEN DefaultAgent
    ELSE plan[s].agentId

\* The AgentWork buildWork(step) returns
buildWork(s) ==
    [agentId |-> IF assignedAgent(s) # NoAgent THEN assignedAgent(s)
                 ELSE IF factory = "test" THEN plan[s].id
                 ELSE UnassignedAgent,
     phase |-> "execution"]

\* groupSteps.find((st) => st.agentId === result.agentId &&
\*                        (st.status === "running" || st.status === "pending"))
\* 0 when no step matches
matchStep(grp, result) ==
    LET hits == {x \in 1..Len(grp) :
                    /\ plan[grp[x]].agentId = result.agentId
                    /\ plan[grp[x]].status \in {"running", "pending"}}
    IN IF hits = {} THEN 0
       ELSE grp[CHOOSE x \in hits : \A y \in hits : x <= y]

failedSteps(p) == SelectSeq([x \in 1..Len(p) |-> x], LAMBDA s : p[s].status = "error")

\* the crew variables the executor's hooks leave alone
hookFrame == <<fnVars, setupVars, repairVars, allowVars, crew, termination, lastReturn, opc, runOut, listener>>

\* a call received by cfg.onPlanGenerated, cfg.onPlanStepUpdate or cfg.onPlanWaveComplete
HookCall(hook, id, event, wave) == [hook |-> hook, id |-> id, event |-> event, wave |-> wave]

\* the memory entry the orchestrator's onStepUpdate hook appends for step p
\* (part_002:332-341)
stepEntry(p, event) ==
    CASE event = "start" -> Thought("Step " \o p.id \o " started")
      [] event = "success" -> Observation("Step " \o p.id \o " completed", TRUE)
      [] OTHER -> Observation("Step " \o p.id \o " failed: " \o p.errorMessage, FALSE)

\* hooks.onStepUpdate(step, event): nothing without hooks; the orchestrator's
\* hook appends to memory, then calls cfg.onPlanStepUpdate
onStepUpdate(p, event) ==
    IF listener = "orchestrator"
    THEN /\ memory' = pushEntry(memory, stepEntry(p, event))
         /\ telemetry' = Append(telemetry, HookCall("onPlanStepUpdate", p.id, event, -1))
    ELSE UNCHANGED <<memory, telemetry>>

\* Top of the while loop with nothing ready and nothing remaining: break
DagComplete ==
    /\ dpc = "loop"
    /\ readySteps = <<>>
    /\ remaining = {}
    /\ dpc' = "returned"
    /\ runResult' = [waves |-> waves, stepsExecuted |-> executed,
                     failedSteps |-> failedSteps(plan)]
    /\ UNCHANGED <<crewVars, execVars, itemVars, batchVars, plan, factory, waves, executed,
                   groups, gi, mi, rk, waveLog, waveOf>>

\* The while loop without its deadlock exit: it goes round without a change
DagDeadlockSpins ==
    /\ dpc = "loop"
    /\ readySteps = <<>>
    /\ remaining # {}
    /\ UNCHANGED vars

\* Top of the while loop with nothing ready but steps remaining: mark them
\* error (deadlock) and break
DagDeadlock ==
    /\ dpc = "loop"
    /\ readySteps = <<>>
    /\ remaining # {}
    /\ plan' = [s \in Steps |->
                  IF s \in remaining
                  THEN [plan[s] EXCEPT !.status = "error", !.errorMessage = DeadlockMsg]
                  ELSE plan[s]]
    /\ dpc' = "returned"
    /\ runResult' = [waves |-> waves, stepsExecuted |-> executed,
                     failedSteps |-> failedSteps(plan')]
    /\ UNCHANGED <<crewVars, execVars, itemVars, batchVars, factory, waves, executed,
                   groups, gi, mi, rk, waveLog, waveOf>>

\* Top of the while loop with ready steps: onWaveStart(waves, ready), group them
DagWaveStart ==
    /\ dpc = "loop"
    /\ readySteps # <<>>
    /\ waveLog' = Append(waveLog, waves)
    /\ groups' = groupsOf(readySteps)
    /\ gi' = 1
    /\ mi' = 1
    /\ dpc' = "mark"
    /\ UNCHANGED <<crewVars, execVars, itemVars, batchVars, plan, factory, waves, executed,
                   rk, waveOf, runResult>>

\* step.status = "running"; await onStepUpdate(step, "start")
DagMark ==
    /\ dpc = "mark"
    /\ mi <= Len(groups[gi])
    /\ LET s == groups[gi][mi] IN
        /\ plan' = [plan EXCEPT ![s].status = "running"]
        /\ waveOf' = [waveOf EXCEPT ![s] = waves]
        /\ onStepUpdate(plan'[s], "start")
    /\ mi' = mi + 1
    /\ UNCHANGED <<hookFrame, execVars, itemVars, batchVars, factory, dpc, waves, executed,
                   groups, gi, rk, waveLog, runResult>>

\* step.status = "running"; cfg.onPlanStepUpdate(step, "start") threw: run rejects
DagMarkHookThrows ==
    /\ dpc = "mark"
    /\ mi <= Len(groups[gi])
    /\ listener = "orchestrator"
    /\ "onPlanStepUpdate" \in throwing
    /\ LET s == groups[gi][mi] IN
        /\ plan' = [plan EXCEPT ![s].status = "running"]
        /\ waveOf' = [waveOf EXCEPT ![s] = waves]
        /\ onStepUpdate(plan'[s], "start")
    /\ dpc' = "rejected"
    /\ UNCHANGED <<hookFrame, execVars, itemVars, batchVars, factory, mi, waves, executed,
                   groups, gi, rk, waveLog, runResult>>

\* groupSteps.map(buildWork), then runBatch(workItems) up to its first await
DagDispatch ==
    /\ dpc = "mark"
    /\ mi > Len(groups[gi])
    /\ LET grp == groups[gi] IN
        /\ work' = [j \in Items |-> IF j \in Range(grp) THEN buildWork(j) ELSE work[j]]
        /\ plan' = [s \in Steps |->
                      IF s \in Range(grp)
                      THEN [plan[s] EXCEPT !.agentId = assignedAgent(s)]
                      ELSE plan[s]]
        /\ StartBatch(grp)
    /\ dpc' = "awaitBatch"
    /\ UNCHANGED <<crewVars, execVars, outcome, factory, waves, executed, groups, gi, mi, rk,
                   waveLog, waveOf, runResult>>

\* runBatch resolved: start mapping summary.results back to steps
DagResume ==
    /\ dpc = "awaitBatch"
    /\ bpc = "returned"
    /\ bpc' = "idle"
    /\ dpc' = "map"
    /\ rk' = 1
    /\ UNCHANGED <<crewVars, execVars, itemVars, queue, inFlight, results, awaited, summary,
                   plan, factory, waves, executed, groups, gi, mi, waveLog, waveOf,
                   runResult>>

\* step.status / step.errorMessage set from the result matched to step s
mapped(s, result) ==
    [plan EXCEPT
       ![s].status = IF result.success THEN "done" ELSE "error",
       ![s].errorMessage =
           IF result.success THEN @
           ELSE IF result.errorMessage = NoMsg THEN UnknownErrorMsg
           ELSE result.errorMessage]

\* One iteration of for (const result of summary.results): summary.results is
\* the live results array of the call
DagMap ==
    /\ dpc = "map"
    /\ rk <= Len(results[cur])
    /\ LET result == results[cur][rk]
           s == matchStep(groups[gi], result)
       IN IF s = 0
          THEN UNCHANGED <<plan, executed, memory, telemetry>>
          ELSE /\ plan' = mapped(s, result)
               /\ onStepUpdate(plan'[s], IF result.success THEN "success" ELSE "error")
               /\ executed' = executed + 1
    /\ rk' = rk + 1
    /\ UNCHANGED <<hookFrame, execVars, itemVars, batchVars, factory, dpc, waves, groups, gi, mi,
                   waveLog, waveOf, runResult>>

\* The step of a result is set, cfg.onPlanStepUpdate threw: run rejects before
\* executed++
DagMapHookThrows ==
    /\ dpc = "map"
    /\ rk <= Len(results[cur])
    /\ listener = "orchestrator"
    /\ "onPlanStepUpdate" \in throwing
    /\ LET result == results[cur][rk]
           s == matchStep(groups[gi], result)
       IN /\ s # 0
          /\ plan' = mapped(s, result)
          /\ onStepUpdate(plan'[s], IF result.success THEN "success" ELSE "error")
    /\ dpc' = "rejected"
    /\ UNCHANGED <<hookFrame, execVars, itemVars, batchVars, factory, executed, rk, waves,
                   groups, gi, mi, waveLog, waveOf, runResult>>

\* The results are exhausted and another group of the wave is left
DagNextGroup ==
    /\ dpc = "map"
    /\ rk > Len(results[cur])
    /\ gi < Len(groups)
    /\ gi' = gi + 1
    /\ mi' = 1
    /\ dpc' = "mark"
    /\ UNCHANGED <<crewVars, execVars, itemVars, batchVars, plan, factory, waves, executed,
                   groups, rk, waveLog, waveOf, runResult>>

\* the ready steps of the wave in progress
waveSteps == Cardinality(UNION {Range(groups[x]) : x \in 1..Len(groups)})

\* hooks.onWaveComplete(waves, ready): the orchestrator's hook calls
\* cfg.onPlanWaveComplete, then appends to memory
onWaveComplete ==
    IF listener = "orchestrator"
    THEN /\ telemetry' = Append(telemetry, HookCall("onPlanWaveComplete", "", "", waves))
         /\ memory' = pushEntry(memory, Thought("Wave " \o ToString(waves) \o " complete (" \o
                                               ToString(waveSteps) \o " steps)."))
    ELSE UNCHANGED <<memory, telemetry>>

\* The results of the wave's last group are exhausted: onWaveComplete, waves++
DagWaveComplete ==
    /\ dpc = "map"
    /\ rk > Len(results[cur])
    /\ gi = Len(groups)
    /\ onWaveComplete
    /\ waves' = waves + 1
    /\ dpc' = "loop"
    /\ UNCHANGED <<hookFrame, execVars, itemVars, batchVars, plan, factory, executed, groups,
                   gi, mi, rk, waveLog, waveOf, runResult>>

\* cfg.onPlanWaveComplete threw: run rejects before the memory entry and waves++
DagWaveCompleteHookThrows ==
    /\ dpc = "map"
    /\ rk > Len(results[cur])
    /\ gi = Len(groups)
    /\ listener = "orchestrator"
    /\ "onPlanWaveComplete" \in throwing
    /\ telemetry' = Append(telemetry, HookCall("onPlanWaveComplete", "", "", waves))
    /\ dpc' = "rejected"
    /\ UNCHANGED <<hookFrame, memory, execVars, itemVars, batchVars, plan, factory, waves,
                   executed, groups, gi, mi, rk, waveLog, waveOf, runResult>>

\* await this.parallelExecutor.runBatch(workItems) rejected: run rejects
DagBatchRejected ==
    /\ dpc = "awaitBatch"
    /\ bpc = "rejected"
    /\ dpc' = "rejected"
    /\ UNCHANGED <<crewVars, execVars, itemVars, batchVars, plan, factory, waves, executed,
                   groups, gi, mi, rk, waveLog, waveOf, runResult>>

Factories == {"test", "crew"}

AgentSeq == <<"a", "b">>

\* Plans are drawn up to renaming of agents and of group labels: step i uses
\* one of the first i agent ids or none, and the first step carries no label.
AgentChoice(i) == {NoAgent} \cup {AgentSeq[x] : x \in 1..Min(i, Len(AgentSeq))}

GroupChoice(i) == IF i = 1 THEN {NoGroup} ELSE GroupLabels \cup {NoGroup}

\* Dependency edges <<step, id>>; an id may be the step's own, a later step's,
\* or one no step carries
EdgeSets(n) ==
    {E \in SUBSET ((1..n) \X ({StepId(j) : j \in 1..n} \cup {MissingId})) :
        Cardinality(E) <= MaxEdges}

Plans(n) ==
    {[i \in 1..n |->
        [id |-> StepId(i), agentId |-> ag[i], parallelGroup |-> gr[i],
         dependsOn |-> {d \in {StepId(j) : j \in 1..n} \cup {MissingId} : <<i, d>> \in E},
         status |-> "pending", errorMessage |-> NoMsg]] :
        ag \in {f \in [1..n -> AgentIds \cup {NoAgent}] : \A i \in 1..n : f[i] \in AgentChoice(i)},
        gr \in {f \in [1..n -> GroupLabels \cup {NoGroup}] : \A i \in 1..n : f[i] \in GroupChoice(i)},
        E \in EdgeSets(n)}

InitDag ==
    /\ NoTracker
    /\ IdleFn
    /\ IdleRepair
    /\ IdleAllow
    /\ IdleOrchWith(TwoWorkers)
    /\ maxConcurrent \in 1..MaxCeiling
    /\ hooks = {}
    /\ factory \in Factories
    /\ \E n \in 1..MaxSteps :
        /\ plan \in Plans(n)
        /\ work = [i \in 1..n |-> [agentId |-> NoAgent, phase |-> "execution"]]
        /\ stage = [i \in 1..n |-> "new"]
        /\ batchOf = [i \in 1..n |-> 0]
        /\ outcome = [i \in 1..n |-> "unset"]
        /\ waveOf = [i \in 1..n |-> -1]
    /\ queue = <<>>
    /\ inFlight = <<>>
    /\ results = <<>>
    /\ awaited = {}
    /\ summary = NoSummary
    /\ bpc = "idle"
    /\ dpc = "loop"
    /\ waves = 0
    /\ executed = 0
    /\ groups = <<>>
    /\ gi = 0
    /\ mi = 0
    /\ rk = 0
    /\ waveLog = <<>>
    /\ runResult = NoRunResult

NextDag ==
    \/ DagComplete
    \/ DagDeadlock
    \/ DagWaveStart
    \/ DagMark
    \/ DagDispatch
    \/ BatchPrime
    \/ \E i \in Items, o \in Outcomes : ItemFinish(i, o)
    \/ \E i \in Items : ItemThen(i)
    \/ \E i \in Items : ItemFinally(i)
    \/ BatchSummary
    \/ BatchReturn
    \/ DagResume
    \/ DagMap
    \/ DagNextGroup
    \/ DagWaveComplete

SpecDag == InitDag /\ [][NextDag]_vars

\* The event loop runs every pending reaction and every action completes.
FairSpecDag == SpecDag /\ WF_vars(NextDag)

\* ------------------------------------------------- the repair loops alone
\* A caller enters one of the two loops
CallRepair(l) ==
    /\ rpc = "idle"
    /\ StartRepair(l)
    /\ UNCHANGED nonRepairVars

InitRepair ==
    /\ NoTracker
    /\ IdleFn
    /\ IdleAllow
    /\ IdleOrch
    /\ loop = "none"
    /\ maxAttempts \in [Loops -> Ceilings]
    /\ attempt = 0
    /\ llmCalls = [l \in Loops |-> 0]
    /\ messages = <<>>
    /\ response = <<>>
    /\ lastError = NoMsg
    /\ decision = Pending
    /\ raised = <<>>
    /\ rpc = "idle"
    /\ throwing \in {{}, {"onRouteDecisionAttempt", "onPlanAttempt"}, {"llm.chat"}}
    /\ IdleBatch
    /\ IdleDag

NextRepair ==
    \/ \E l \in Loops : CallRepair(l)
    \/ \E r \in LoopTexts : LlmRespond(r)
    \/ LlmRejects
    \/ ParseAccepts
    \/ ParseAcceptsHookThrows
    \/ ParseRejects
    \/ CatchContinues
    \/ CatchHookThrows

SpecRepair == InitRepair /\ [][NextRepair]_vars

\* ------------------------------------------------ pure functions evaluated
MaxRawSteps == 3

RawIds == {NoId, "a"} \cup {StepId(i) : i \in 1..MaxRawSteps}

\* the steps parsePlanDecision returns, with the given ids
ParsedSteps(ids) ==
    [x \in 1..Len(ids) |->
        [id |-> ids[x], agentId |-> NoAgent, parallelGroup |-> NoGroup, dependsOn |-> {}]]

EvalParseRouteDecision ==
    /\ fn = "parseRouteDecision"
    /\ ret = Pending
    /\ ret' = parseRouteDecision(arg)
    /\ UNCHANGED <<fn, arg, nonFnVars>>

\* parseStructured(arg.raw, arg.requiredKeys) is called
EvalParseStructured ==
    /\ fn = "parseStructured"
    /\ ret = Pending
    /\ ret' = parseStructured(arg.raw, arg.requiredKeys)
    /\ UNCHANGED <<fn, arg, nonFnVars>>

EvalNormalizedSteps ==
    /\ fn = "normalizedSteps"
    /\ ret = Pending
    /\ ret' = Returned(normalizedSteps(arg))
    /\ UNCHANGED <<fn, arg, nonFnVars>>

\* invokePlanner(opts) with opts.maxSteps = arg.maxSteps and a model that
\* answers arg.raw
EvalInvokePlanner ==
    /\ fn = "invokePlanner"
    /\ ret = Pending
    /\ ret' = invokePlanner(arg.raw, arg.maxSteps)
    /\ UNCHANGED <<fn, arg, nonFnVars>>

\* model answers with n steps that follow the step schema
StepsText(n) ==
    PlanText("object", Word("plan"), "array",
             [x \in 1..n |-> RawStep(Word(StepId(x)), JUndefined, "undefined", {})])

\* the step caps invokePlanner is called with
StepCaps == {NoCap} \cup 1..MaxStepCap

\* the requiredKeys lists parseStructured is called with
RequiredKeyLists == {<<>>, <<"strategy">>, <<"rationale">>, <<"strategy", "rationale">>}

InitFn ==
    /\ NoTracker
    /\ \/ fn = "parseRouteDecision" /\ arg \in RouteTexts
       \/ /\ fn = "invokePlanner"
          /\ arg \in [raw : {StepsText(n) : n \in 0..MaxRawSteps} \cup {BadStepText, ProseText},
                      maxSteps : StepCaps]
       \/ /\ fn = "parseStructured"
          /\ arg \in [raw : RouteTexts, requiredKeys : RequiredKeyLists]
       \/ /\ fn = "normalizedSteps"
          /\ arg \in {ParsedSteps(ids) : ids \in UNION {[1..n -> RawIds] : n \in 0..MaxRawSteps}}
    /\ ret = Pending
    /\ IdleRepair
    /\ IdleAllow
    /\ IdleOrch
    /\ IdleBatch
    /\ IdleDag

NextFn ==
    \/ EvalParseRouteDecision
    \/ EvalParseStructured
    \/ EvalInvokePlanner
    \/ EvalNormalizedSteps

SpecFn == InitFn /\ [][NextFn]_vars

\* ------------------------------------------------ the enforcer alone
Policies == {Policy(a, h, ids) : a \in ToolAgents, h \in BOOLEAN, ids \in {{}, {"x"}, {"x", "y"}}}
                \ {Policy(a, FALSE, ids) : a \in ToolAgents, ids \in {{"x"}, {"x", "y"}}}

ToolContexts == [agentId : ToolAgents, phase : {"execution"}, toolName : Tools]

InitAllow ==
    /\ NoTracker
    /\ \E ps \in UNION {[1..n -> Policies] : n \in 0..2} :
          /\ policyMap = mapOf(ps)
          /\ calls = <<[op |-> "new", agentId |-> "", policies |-> ps]>>
    /\ verdict = NoVerdict
    /\ IdleFn
    /\ IdleRepair
    /\ IdleOrch
    /\ IdleBatch
    /\ IdleDag

NextAllow ==
    \/ \E ctx \in ToolContexts : Check(ctx)
    \/ \E p \in Policies : UpsertPolicy(p)
    \/ \E a \in ToolAgents : RemovePolicy(a)

SpecAllow == InitAllow /\ [][NextAllow]_vars

\* ------------------------------------------ CrewOrchestrator.run (part_002)
NoCrewMsg == "CrewOrchestrator: No crew available in global state."

SkeletonRationale == "Skeleton auto-generated plan (no real planner yet)."

PlannerFailedNote == "Planner failed, using skeleton plan fallback"

\* generateSkeletonPlan(goal).steps
skeletonSteps(c) ==
    LET w == workAgents(c)
    IN [x \in 1..Len(w) |->
          [id |-> "step_" \o ToString(x) \o "_" \o w[x].id,
           agentId |-> w[x].id,
           parallelGroup |-> w[x].parallelGroup,
           dependsOn |-> {},
           status |-> "pending",
           errorMessage |-> NoMsg]]

\* the plan run holds from here on, with fresh units of work for its steps
SetPlan(p) ==
    /\ plan' = p
    /\ work' = [i \in 1..Len(p) |-> [agentId |-> NoAgent, phase |-> "execution"]]
    /\ stage' = [i \in 1..Len(p) |-> "new"]
    /\ batchOf' = [i \in 1..Len(p) |-> 0]
    /\ outcome' = [i \in 1..Len(p) |-> "unset"]
    /\ waveOf' = [i \in 1..Len(p) |-> -1]

\* run's return statement: the termination state is copied into the result
Resolve(n) ==
    /\ opc' = "returned"
    /\ runOut' = [runOut EXCEPT
                    !.parallelBatchesExecuted = n,
                    !.terminationEarly = termination.terminated,
                    !.terminationReason =
                        IF termination.terminated THEN termination.reason ELSE @,
                    !.terminationDetail =
                        IF termination.terminated THEN termination.terminationDetail ELSE @]

Reject(msg) ==
    /\ opc' = "rejected"
    /\ runOut' = [runOut EXCEPT !.error = msg]

\* run(options) up to its first await
OrchRun ==
    /\ opc = "idle"
    /\ IF ~crew.resolved
       THEN /\ Reject(NoCrewMsg)
            /\ UNCHANGED repairVars
       ELSE /\ StartRepair("route")
            /\ opc' = "route"
            /\ UNCHANGED runOut
    /\ UNCHANGED <<fnVars, setupVars, allowVars, crew, termination, memory, telemetry, lastReturn,
                   listener, execVars, itemVars, batchVars, dagVars>>

\* acquireRouteDecision rejected: so does run
OrchRouteFailed ==
    /\ opc = "route"
    /\ rpc = "failed"
    /\ Reject(raised[1])
    /\ UNCHANGED <<fnVars, setupVars, repairVars, allowVars, crew, termination, memory, telemetry,
                   lastReturn, listener, execVars, itemVars, batchVars, dagVars>>

\* case "plan_then_parallel": invokePlanner(...) up to its first await
OrchRoutePlan ==
    /\ opc = "route"
    /\ rpc = "returned"
    /\ decision.value.strategy = "plan_then_parallel"
    /\ StartRepair("planner")
    /\ opc' = "planner"
    /\ runOut' = [runOut EXCEPT !.strategy = decision.value.strategy]
    /\ UNCHANGED <<fnVars, setupVars, allowVars, crew, termination, memory, telemetry, lastReturn,
                   listener, execVars, itemVars, batchVars, dagVars>>

\* the AgentWork list executeDirectExecution builds
fakeWork == [x \in 1..Len(workAgents(crew)) |->
               [agentId |-> workAgents(crew)[x].id, phase |-> "execution"]]

\* case "direct_execution": executeDirectExecution() up to runBatch's first
\* await, or to its early return
OrchRouteDirect ==
    /\ opc = "route"
    /\ rpc = "returned"
    /\ decision.value.strategy = "direct_execution"
    /\ IF checkTermination \/ workAgents(crew) = <<>>
       THEN /\ opc' = "returned"
            /\ runOut' = [runOut EXCEPT
                            !.strategy = decision.value.strategy,
                            !.parallelBatchesExecuted = 0,
                            !.terminationEarly = termination.terminated,
                            !.terminationReason =
                                IF termination.terminated THEN termination.reason ELSE @,
                            !.terminationDetail =
                                IF termination.terminated
                                THEN termination.terminationDetail ELSE @]
            /\ UNCHANGED <<itemVars, batchVars, waveOf>>
       ELSE /\ opc' = "direct"
            /\ runOut' = [runOut EXCEPT !.strategy = decision.value.strategy]
            /\ work' = fakeWork
            /\ outcome' = [i \in DOMAIN fakeWork |-> "unset"]
            /\ waveOf' = [i \in DOMAIN fakeWork |-> -1]
            /\ queue' = Append(queue, [x \in DOMAIN fakeWork |-> x])
            /\ inFlight' = Append(inFlight, <<>>)
            /\ results' = Append(results, <<>>)
            /\ awaited' = {}
            /\ summary' = NoSummary
            /\ bpc' = "starting"
            /\ stage' = [i \in DOMAIN fakeWork |-> "queued"]
            /\ batchOf' = [i \in DOMAIN fakeWork |-> cur + 1]
    /\ UNCHANGED <<fnVars, setupVars, repairVars, allowVars, crew, termination, memory, telemetry,
                   lastReturn, listener, execVars, plan, factory, dpc, waves, executed,
                   groups, gi, mi, rk, waveLog, runResult>>

\* runBatch(fakeWork) resolved: the observation, then run returns
OrchDirectDone ==
    /\ opc = "direct"
    /\ bpc = "returned"
    /\ memory' = pushEntry(memory,
                     Observation("Executed direct batch with " \o ToString(Len(fakeWork)) \o
                                 " placeholder steps", TRUE))
    /\ Resolve(1)
    /\ UNCHANGED <<fnVars, setupVars, repairVars, allowVars, crew, termination, telemetry, lastReturn,
                   listener, execVars, itemVars, batchVars, dagVars>>

\* runBatch(fakeWork) rejected: so does run
OrchDirectRejected ==
    /\ opc = "direct"
    /\ bpc = "rejected"
    /\ Reject(HookMsg)
    /\ UNCHANGED <<fnVars, setupVars, repairVars, allowVars, crew, termination, memory, telemetry,
                   lastReturn, listener, execVars, itemVars, batchVars, dagVars>>

\* invokePlanner resolved: planGenerated = true; await cfg.onPlanGenerated(plan, "planner")
OrchPlanned ==
    /\ opc = "planner"
    /\ rpc = "returned"
    /\ SetPlan(plannedSteps)
    /\ runOut' = [runOut EXCEPT !.planGenerated = TRUE, !.generatedVia = "planner",
                                !.rationale = decision.value.rationale]
    /\ telemetry' = Append(telemetry, HookCall("onPlanGenerated", "planner", "", -1))
    /\ opc' = "planned"
    /\ UNCHANGED <<fnVars, setupVars, repairVars, allowVars, crew, termination, memory, lastReturn,
                   listener, execVars, batchVars, factory, dpc, waves, executed, groups, gi, mi,
                   rk, waveLog, runResult>>

\* the catch block of run: plan = generateSkeletonPlan(goal); planGenerated = true;
\* await cfg.onPlanGenerated(plan, "skeleton")
Fallback(calls0) ==
    /\ SetPlan(skeletonSteps(crew))
    /\ runOut' = [runOut EXCEPT !.planGenerated = TRUE, !.generatedVia = "skeleton",
                                !.rationale = SkeletonRationale]
    /\ telemetry' = calls0 \o <<HookCall("onPlanGenerated", "skeleton", "", -1)>>
    /\ opc' = "fallback"
    /\ UNCHANGED <<fnVars, setupVars, repairVars, allowVars, crew, termination, memory, lastReturn,
                   listener, execVars, batchVars, factory, dpc, waves, executed, groups, gi, mi,
                   rk, waveLog, runResult>>

\* invokePlanner resolved and cfg.onPlanGenerated(plan, "planner") threw inside
\* the try block: the catch block takes over
OrchPlannedHookThrows ==
    /\ opc = "planner"
    /\ rpc = "returned"
    /\ "onPlanGenerated" \in throwing
    /\ Fallback(Append(telemetry, HookCall("onPlanGenerated", "planner", "", -1)))

\* invokePlanner rejected: the catch block takes over
OrchPlannerFailed ==
    /\ opc = "planner"
    /\ rpc = "failed"
    /\ Fallback(telemetry)

\* cfg.onPlanGenerated(plan, "skeleton") threw in the catch block: run rejects
OrchFallbackHookThrows ==
    /\ opc = "fallback"
    /\ "onPlanGenerated" \in throwing
    /\ Reject(HookMsg)
    /\ UNCHANGED <<fnVars, setupVars, repairVars, allowVars, crew, termination, memory, telemetry,
                   lastReturn, listener, execVars, itemVars, batchVars, dagVars>>

\* the memory entries run appends once onPlanGenerated resolved
planEntries ==
    IF opc = "planned"
    THEN <<Thought("Planner produced " \o ToString(Len(plan)) \o " steps."),
           Thought("Plan rationale: " \o runOut.rationale)>>
    ELSE <<Thought("Fallback plan rationale: " \o runOut.rationale),
           Observation(PlannerFailedNote, FALSE)>>

\* onPlanGenerated resolved: the memory entries, then executePlanThenParallel(plan)
\* up to dag.run's first await, or to its early return
ExecutePlan ==
    /\ opc \in {"planned", "fallback"}
    /\ memory' = pushAll(memory, planEntries)
    /\ IF checkTermination \/ plan = <<>>
       THEN /\ Resolve(0)
            /\ UNCHANGED <<listener, factory, dpc>>
       ELSE /\ listener' = "orchestrator"
            /\ factory' = "crew"
            /\ dpc' = "loop"
            /\ opc' = "dag"
            /\ UNCHANGED runOut
    /\ UNCHANGED <<fnVars, setupVars, repairVars, allowVars, crew, termination, telemetry, lastReturn,
                   execVars, itemVars, batchVars, plan, waves, executed, groups, gi, mi, rk,
                   waveLog, waveOf, runResult>>

countStatus(st) == Cardinality({s \in Steps : plan[s].status = st})

\* dag.run resolved: the summary thought, then run returns result.waves
OrchDagReturned ==
    /\ opc = "dag"
    /\ dpc = "returned"
    /\ memory' = pushEntry(memory,
                     Thought("Plan execution summary: " \o ToString(countStatus("done")) \o
                             " done, " \o ToString(countStatus("error")) \o " error, " \o
                             ToString(runResult.waves) \o " waves."))
    /\ Resolve(runResult.waves)
    /\ UNCHANGED <<fnVars, setupVars, repairVars, allowVars, crew, termination, telemetry, lastReturn,
                   listener, execVars, itemVars, batchVars, dagVars>>

\* dag.run rejected: so does run
OrchDagRejected ==
    /\ opc = "dag"
    /\ dpc = "rejected"
    /\ Reject(HookMsg)
    /\ UNCHANGED <<fnVars, setupVars, repairVars, allowVars, crew, termination, memory, telemetry,
                   lastReturn, listener, execVars, itemVars, batchVars, dagVars>>

terminationFrame ==
    <<fnVars, setupVars, repairVars, allowVars, crew, telemetry, opc, runOut, listener, execVars,
      itemVars, batchVars, dagVars>>

\* The callers of the termination methods act before run or after run
\* has settled.
callerActs == opc \in {"idle", "returned", "rejected"}

\* the callers stop counting one past a configured ceiling, and at one
\* without a ceiling
mayCount(n, max) == n <= (IF limited(max) THEN max ELSE 0)

\* a caller invokes incrementAgentLoop(a)
IncrementAgentLoop(a) ==
    /\ callerActs
    /\ mayCount(termination.agentLoopCounts[a], crew.maxAgentLoops)
    /\ termination' = incrementAgentLoop(termination, a)
    /\ lastReturn' = IF continues(termination, termination') THEN "true" ELSE "false"
    /\ UNCHANGED <<terminationFrame, memory>>

\* a caller invokes incrementReflectionCycle()
IncrementReflectionCycle ==
    /\ callerActs
    /\ mayCount(termination.reflectionCycles, crew.maxReflectionCycles)
    /\ termination' = incrementReflectionCycle(termination)
    /\ lastReturn' = IF continues(termination, termination') THEN "true" ELSE "false"
    /\ UNCHANGED <<terminationFrame, memory>>

\* a caller invokes runReflectionPassPlaceholder()
RunReflectionPassPlaceholder ==
    /\ callerActs
    /\ mayCount(termination.reflectionCycles, crew.maxReflectionCycles)
    /\ IF termination.terminated
       THEN UNCHANGED <<termination, memory>>
       ELSE /\ termination' = incrementReflectionCycle(termination)
            /\ memory' = pushEntry(memory, Thought("Reflection placeholder invoked"))
    /\ UNCHANGED <<terminationFrame, lastReturn>>

\* the crews an orchestrator is constructed over
AgentLists ==
    {<<Agent("a", TRUE, FALSE, "g"), Agent("b", TRUE, FALSE, "g")>>,
     <<Agent("a", TRUE, TRUE, NoGroup), Agent("b", TRUE, FALSE, NoGroup)>>,
     <<Agent("a", FALSE, FALSE, NoGroup), Agent("b", TRUE, TRUE, NoGroup)>>}

OrchCrews ==
    {Crew(ags, Unset, Unset, Unset) : ags \in AgentLists}
    \cup {Crew(ags, MaxCeiling, MaxLoops, MaxLoops) : ags \in AgentLists}

\* entry c of the store under another id and default flag
entry(c, id, def) == [c EXCEPT !.id = id, !.default = def]

\* the global states an orchestrator is constructed over: an empty store, a
\* store of one crew with no selection, and stores of two crews with every
\* combination of default flags and a selection that is absent, names either
\* entry or names no entry
OrchStores ==
    {Store(<<>>, sel) : sel \in {"undefined", "crew1"}}
    \cup {Store(<<c>>, "undefined") : c \in OrchCrews}
    \cup {Store(<<entry(Crew(<<Agent("a", TRUE, FALSE, "g"), Agent("b", TRUE, FALSE, "g")>>,
                             Unset, Unset, Unset), "crew1", d1),
                  entry(Crew(<<Agent("a", TRUE, TRUE, NoGroup), Agent("b", TRUE, FALSE, NoGroup)>>,
                             MaxCeiling, MaxLoops, MaxLoops), "crew2", d2)>>, sel) :
              d1 \in BOOLEAN, d2 \in BOOLEAN,
              sel \in {"undefined", "crew1", "crew2", "crew9"}}

\* the callbacks of cfg that may throw, and the model client
OrchCallbacks ==
    {"llm.chat", "onRouteDecisionAttempt", "onPlanAttempt", "onPlanGenerated",
     "onPlanStepUpdate", "onPlanWaveComplete", "onParallelBatchComplete"}

\* a plan of two independent steps in different groups and a step that waits
\* for a step that does not exist
DeadlockText ==
    PlanText("object", Word("stuck"), "array",
             <<RawStep(Word("s1"), Word("g"), "undefined", {}),
               RawStep(Word("s2"), JUndefined, "undefined", {}),
               RawStep(Word("s3"), JUndefined, "array", {MissingId})>>)

\* the texts the model returns during a run
OrchTexts ==
    IF loop = "route"
    THEN {RouteText("object", Word("plan_then_parallel"), Word("why")),
          RouteText("wrapped", Str(<<"direct_execution", Space>>), Word("why")),
          ProseText}
    ELSE {TwoStepText, DeadlockText, ProseText}

InitOrch ==
    /\ NoTracker
    /\ IdleFn
    /\ IdleAllow
    /\ store \in OrchStores
    /\ maxEntries = DefaultMaxEntries
    /\ appended = <<>>
    /\ crew = resolveCrew(store)
    /\ termination = NoTermination
    /\ memory = <<>>
    /\ telemetry = <<>>
    /\ lastReturn = "undefined"
    /\ opc = "idle"
    /\ runOut = NoRunOut
    /\ listener = "none"
    /\ loop = "none"
    /\ maxAttempts = [l \in Loops |-> Unset]
    /\ attempt = 0
    /\ llmCalls = [l \in Loops |-> 0]
    /\ messages = <<>>
    /\ response = <<>>
    /\ lastError = NoMsg
    /\ decision = Pending
    /\ raised = <<>>
    /\ rpc = "idle"
    /\ throwing \in {{}} \cup {{c} : c \in OrchCallbacks}
    /\ Len(store.crews) > 1 => throwing = {}
    /\ maxConcurrent = maxConcurrentOf(crew)
    /\ hooks = IF "onParallelBatchComplete" \in throwing THEN {"onFinishBatch"} ELSE {}
    /\ work = <<>>
    /\ stage = <<>>
    /\ batchOf = <<>>
    /\ outcome = <<>>
    /\ waveOf = <<>>
    /\ queue = <<>>
    /\ inFlight = <<>>
    /\ results = <<>>
    /\ awaited = {}
    /\ summary = NoSummary
    /\ bpc = "idle"
    /\ plan = <<>>
    /\ factory = "none"
    /\ dpc = "none"
    /\ waves = 0
    /\ executed = 0
    /\ groups = <<>>
    /\ gi = 0
    /\ mi = 0
    /\ rk = 0
    /\ waveLog = <<>>
    /\ runResult = NoRunResult

NextOrch ==
    \/ OrchRun
    \/ \E r \in OrchTexts : LlmRespond(r)
    \/ LlmRejects
    \/ ParseAccepts
    \/ ParseAcceptsHookThrows
    \/ ParseRejects
    \/ CatchContinues
    \/ CatchHookThrows
    \/ OrchRouteFailed
    \/ OrchRoutePlan
    \/ OrchRouteDirect
    \/ OrchDirectDone
    \/ OrchDirectRejected
    \/ OrchPlanned
    \/ OrchPlannedHookThrows
    \/ OrchPlannerFailed
    \/ OrchFallbackHookThrows
    \/ ExecutePlan
    \/ DagComplete
    \/ DagDeadlock
    \/ DagWaveStart
    \/ DagMark
    \/ DagMarkHookThrows
    \/ DagDispatch
    \/ BatchPrime
    \/ \E i \in Items : ItemFinish(i, "ok")
    \/ \E i \in Items : ItemThen(i)
    \/ \E i \in Items : ItemFinally(i)
    \/ BatchSummary
    \/ BatchFinishRejected
    \/ BatchReturn
    \/ DagBatchRejected
    \/ DagResume
    \/ DagMap
    \/ DagMapHookThrows
    \/ DagNextGroup
    \/ DagWaveComplete
    \/ DagWaveCompleteHookThrows
    \/ OrchDagReturned
    \/ OrchDagRejected
    \/ \E a \in ToolAgents : IncrementAgentLoop(a)
    \/ IncrementReflectionCycle
    \/ RunReflectionPassPlaceholder

SpecOrch == InitOrch /\ [][NextOrch]_vars

\* ------------------------------------- ShortTermMemory (ShortTermMemory.ts)
\* the entry of the k-th append since the last clear; entries differ by id and ts
nextEntry(type) ==
    IF type = "thought"
    THEN Thought("t" \o ToString(Len(appended) + 1))
    ELSE Observation("o" \o ToString(Len(appended) + 1), TRUE)

nonMemoryVars ==
    <<fnVars, repairVars, allowVars, crew, termination, telemetry, lastReturn, opc, runOut,
      listener, store, tracker, commits, execVars, itemVars, batchVars, dagVars>>

\* appendThought(content)
AppendThought ==
    /\ Len(appended) < MaxAppends
    /\ memory' = pushEntry(memory, nextEntry("thought"))
    /\ appended' = Append(appended, nextEntry("thought"))
    /\ UNCHANGED <<nonMemoryVars, maxEntries>>

\* an appendObservation whose entry never reaches the ledger
AppendObservationLost ==
    /\ Len(appended) < MaxAppends
    /\ memory' = memory
    /\ appended' = Append(appended, nextEntry("observation"))
    /\ UNCHANGED <<nonMemoryVars, maxEntries>>

\* appendObservation({ content, success })
AppendObservation ==
    /\ Len(appended) < MaxAppends
    /\ memory' = pushEntry(memory, nextEntry("observation"))
    /\ appended' = Append(appended, nextEntry("observation"))
    /\ UNCHANGED <<nonMemoryVars, maxEntries>>

\* clear(): this.entries = []
Clear ==
    /\ memory' = <<>>
    /\ appended' = <<>>
    /\ UNCHANGED <<nonMemoryVars, maxEntries>>

\* size()
size == Len(memory)

\* new ShortTermMemory(maxEntries), or new ShortTermMemory() with the default
InitMemory ==
    /\ NoTracker
    /\ IdleFn
    /\ IdleRepair
    /\ IdleAllow
    /\ IdleBatch
    /\ IdleDag
    /\ store = Store(<<>>, "undefined")
    /\ crew = NoCrew
    /\ termination = NoTermination
    /\ telemetry = <<>>
    /\ lastReturn = "undefined"
    /\ opc = "idle"
    /\ runOut = NoRunOut
    /\ listener = "none"
    /\ maxEntries \in 0..MaxCapacity \cup {DefaultMaxEntries}
    /\ memory = <<>>
    /\ appended = <<>>

NextMemory ==
    \/ AppendThought
    \/ AppendObservation
    \/ Clear

SpecMemory == InitMemory /\ [][NextMemory]_vars

\* ================================================================= claims
NoWorkFailed == \A i \in Items : outcome[i] \notin {"fail", "raise"}

AllDone == \A s \in Steps : plan[s].status = "done"

\* the step a dependency id resolves to (0: no step carries the id)
resolve(d) ==
    IF \E j \in Steps : plan[j].id = d
    THEN CHOOSE j \in Steps : plan[j].id = d /\ \A j2 \in Steps : plan[j2].id = d => j2 <= j
    ELSE 0

\* steps that depend, directly or through other steps, on an id no step carries
RECURSIVE BlockedFrom(_)
BlockedFrom(B) ==
    LET B2 == B \cup {s \in Steps : \E d \in plan[s].dependsOn : resolve(d) \in B}
    IN IF B2 = B THEN B ELSE BlockedFrom(B2)

Blocked == BlockedFrom({s \in Steps : \E d \in plan[s].dependsOn : resolve(d) = 0})

\* steps whose dependencies can all be satisfied: every id they depend on,
\* directly or through other steps, resolves, and no cycle is involved
RECURSIVE RunnableFrom(_)
RunnableFrom(R) ==
    LET R2 == {s \in Steps : \A d \in plan[s].dependsOn : resolve(d) \in R}
    IN IF R2 = R THEN R ELSE RunnableFrom(R2)

Runnable == RunnableFrom({})

IsChain ==
    \A s \in Steps :
        plan[s].dependsOn = IF s = 1 THEN {} ELSE {StepId(s - 1)}

\* C1: a plan of N >= 1 pending steps without dependency edges, whose units of
\* work all succeed, returns waves = 1 with every step "done", whatever the
\* agent ids and parallel-group labels of the steps.
C1_IndependentStepsOneWave ==
    (/\ dpc = "returned"
     /\ \A s \in Steps : plan[s].dependsOn = {}
     /\ NoWorkFailed)
    => (runResult.waves = 1 /\ AllDone)

\* C2: a linear chain of K steps with succeeding work takes at least K waves,
\* ends with all K steps "done", and the indices given to onWaveStart are
\* 0, 1, 2, ... without gap or repeat.
C2_ChainWaves ==
    (dpc = "returned" /\ IsChain /\ NoWorkFailed)
    => (/\ runResult.waves >= Len(plan)
        /\ AllDone
        /\ \A x \in 1..Len(waveLog) : waveLog[x] = x - 1)

\* C3: a step depending on an id no step carries, and every step behind it,
\* ends "error" with the "dependencies unresolved" message and is never
\* started; every step whose dependencies can all be satisfied runs and ends
\* "done" when the work succeeds.
C3_UnresolvedDependencies ==
    dpc = "returned"
    => (/\ \A s \in Blocked :
            /\ plan[s].status = "error"
            /\ plan[s].errorMessage = DeadlockMsg
            /\ waveOf[s] = -1
        /\ NoWorkFailed => \A s \in Runnable : plan[s].status = "done")

\* C4: run terminates for every finite plan, cyclic, self-dependent or with
\* dangling dependency ids, provided every action eventually completes.
C4_RunTerminates == <>(dpc = "returned")

C4_Witness ==
    /\ dpc = "returned"
    /\ runResult.waves >= 1
    /\ \E s \in Steps : plan[s].id \in plan[s].dependsOn
    /\ \E s \in Steps : MissingId \in plan[s].dependsOn

\* C5: generation barrier: no step is marked "running" in a later wave until
\* every step started in an earlier wave is "done" or "error" and its action
\* has finished.
C5_GenerationBarrier ==
    [][\A t \in Steps :
          (plan[t].status = "pending" /\ plan'[t].status = "running")
          => \A s \in Steps :
                (waveOf[s] >= 0 /\ waveOf[s] < waves)
                => /\ plan[s].status \in {"done", "error"}
                   /\ stage[s] \notin {"queued", "running"}]_vars

running(b) == {i \in Items : batchOf[i] = b /\ stage[i] = "running"}

\* C6: during one runBatch call, the number of items whose action has started
\* and not finished never exceeds maxConcurrent.
C6_ConcurrencyCeiling ==
    \A b \in 1..Len(queue) : Cardinality(running(b)) <= maxConcurrent

C6_Witness ==
    /\ cur = 1
    /\ maxConcurrent = MaxCeiling
    /\ Cardinality(running(1)) = maxConcurrent
    /\ \E i \in Items : stage[i] = "settled"

\* C7: the summary runBatch returns has |succeeded| + |failed| = |results| = n
\* for every batch size and ceiling, however the actions end.
C7_SummaryCounts ==
    bpc = "returned"
    => /\ Len(summary.succeeded) + Len(summary.failed) = Len(results[cur])
       /\ Len(results[cur]) = Cardinality(Items)

\* C8: runBatch builds its summary, calls onFinishBatch and returns only after
\* every submitted item's action has completed: none is queued or running.
C8_ReturnsAfterAllWork ==
    bpc \in {"finishing", "returned"}
    => \A i \in Items : stage[i] \notin {"queued", "running"}

\* C9: an action that raises never makes runBatch reject; it is recorded as a
\* result with success = false and the raised message, and the remaining items
\* of the batch are still launched.
C9_RaiseContained ==
    /\ hooks = {} => bpc # "rejected"
    /\ \A i \in Items :
        (outcome[i] = "raise" /\ stage[i] \in {"pushed", "hookThrew", "settled"})
        => \E x \in 1..Len(results[batchOf[i]]) :
              LET r == results[batchOf[i]][x]
              IN r.item = i /\ r.agentId = work[i].agentId /\ ~r.success
                 /\ r.errorMessage = RaisedMsg
    /\ \A b \in 1..Len(queue) :
        (summary.built \/ bpc \in {"awaiting", "finishing", "returned"}) /\ queue[b] # <<>>
        => \E i \in Items :
              batchOf[i] = b /\ stage[i] \in {"running", "finished", "pushed", "hookThrew"}

C9_Witness ==
    /\ bpc = "returned"
    /\ maxConcurrent = 1
    /\ \E i, j \in Items : i < j /\ outcome[i] = "raise" /\ stage[j] = "settled"

\* C10: a throwing onStartBatch, onResult or onFinishBatch hook does not abort
\* the batch: runBatch still resolves with a summary.
C10_HookFailureContained == bpc # "rejected"


\* C11: in both repair loops, a valid first response means exactly one model
\* call and no repair message; when every response is invalid and the ceiling
\* is A >= 1, exactly A model calls are made and then the operation fails.
C11_RepairAttempts ==
    loop # "none" =>
      /\ (response # <<>> /\ parseOf(loop, response[1]).ok)
           => (llmCalls[loop] = 1 /\ Len(messages) = 2 /\ rpc # "failed")
      /\ (/\ rpc \in {"returned", "failed"}
          /\ Len(response) = llmCalls[loop]
          /\ \A x \in 1..Len(response) : ~parseOf(loop, response[x]).ok
          /\ maxAttempts[loop] # 0)
           => (rpc = "failed" /\ llmCalls[loop] = ceiling(loop))


\* the text parses to an object, by itself or by its first balanced {...}
HoldsObject(r) == r.form \in {"object", "wrapped"}

\* C12 as stated: parseRouteDecision returns a decision only when the parsed
\* object has a strategy that is one of the two allowed strings and a
\* rationale that is a non-empty string after trimming; every other input
\* fails with an error, and no supplied value is coerced.
C12_StrictAsSupplied ==
    (fn = "parseRouteDecision" /\ ret # Pending) =>
      IF /\ HoldsObject(arg)
         /\ arg.strategy.type = "string"
         /\ text(arg.strategy.chars) \in ROUTE_ALLOWED_STRATEGIES
         /\ arg.rationale.type = "string"
         /\ trim(arg.rationale.chars) # <<>>
      THEN ret.ok /\ ret.value.strategy = text(arg.strategy.chars)
      ELSE ~ret.ok /\ ret.error # NoMsg

\* C12 (amended): parseRouteDecision returns a decision exactly when the
\* parsed object has a string strategy that after trimming is one of the two
\* allowed strings and a rationale that is a non-empty string after trimming;
\* the decision carries the trimmed strategy and the trimmed rationale; every
\* other input fails with an error and returns nothing.
C12_StrictAfterTrim ==
    (fn = "parseRouteDecision" /\ ret # Pending) =>
      IF /\ HoldsObject(arg)
         /\ arg.strategy.type = "string"
         /\ text(trim(arg.strategy.chars)) \in ROUTE_ALLOWED_STRATEGIES
         /\ arg.rationale.type = "string"
         /\ trim(arg.rationale.chars) # <<>>
      THEN /\ ret.ok
           /\ ret.value.strategy \in ROUTE_ALLOWED_STRATEGIES
           /\ ret.value.strategy = text(trim(arg.strategy.chars))
           /\ ret.value.rationale = text(trim(arg.rationale.chars))
      ELSE ~ret.ok /\ ret.value = <<>> /\ ret.error # NoMsg

C12_Witness ==
    /\ fn = "parseRouteDecision"
    /\ ret.ok
    /\ arg.form = "wrapped"
    /\ arg.strategy.chars # trim(arg.strategy.chars)
    /\ arg.rationale.chars # trim(arg.rationale.chars)


\* the ids of the steps in the result, and the raw id of step i of the argument
idsOf(steps) == [x \in 1..Len(steps) |-> steps[x].id]

\* the id step i holds when the uniqueness pass reaches it
heldId(i) == IF arg[i].id = NoId THEN StepId(i) ELSE arg[i].id

\* C13: a step whose id is already used by an earlier step of the list is
\* reassigned "s" + its 1-based position, the earlier holder keeps its id, and
\* a step without id receives "s" + its 1-based position.
C13_IdNormalization ==
    (fn = "normalizedSteps" /\ ret # Pending) =>
      LET out == idsOf(ret.value) IN
      /\ Len(out) = Len(arg)
      /\ \A i \in 1..Len(arg) :
            /\ arg[i].id = NoId => out[i] = StepId(i)
            /\ (\E j \in 1..(i - 1) : out[j] = heldId(i)) => out[i] = StepId(i)
            /\ (\A j \in 1..(i - 1) : out[j] # heldId(i)) => out[i] = heldId(i)

C13_Witness ==
    /\ fn = "normalizedSteps"
    /\ ret # Pending
    /\ Len(arg) = 3
    /\ arg[1].id = "s1" /\ arg[2].id = "s1" /\ arg[3].id = NoId
    /\ idsOf(ret.value) = <<"s1", "s2", "s3">>

\* C14: every Plan returned by invokePlanner has pairwise distinct step ids,
\* whatever explicit, missing and colliding raw ids the model returned.
C14_DistinctStepIds ==
    (fn = "normalizedSteps" /\ ret # Pending) =>
      \A i, j \in 1..Len(ret.value) : i # j => ret.value[i].id # ret.value[j].id


\* C15: check returns allowed = true exactly when the agent has no policy
\* record, or the policy's list is absent or empty, or the list contains the
\* tool; otherwise allowed = false with a reason naming the tool and the agent.
C15_AllowlistDecision ==
    verdict # NoVerdict =>
      LET a == verdict.ctx.agentId
          t == verdict.ctx.toolName
          d == verdict.decision
      IN /\ d.allowed <=> \/ a \notin DOMAIN policyMap
                           \/ ~policyMap[a].hasList
                           \/ policyMap[a].allowedToolIds = {}
                           \/ t \in policyMap[a].allowedToolIds
         /\ ~d.allowed => (t \in Range(d.reason) /\ a \in Range(d.reason))

C15_Witness ==
    /\ verdict # NoVerdict
    /\ ~verdict.decision.allowed
    /\ verdict.ctx.toolName = "y"
    /\ policyMap[verdict.ctx.agentId].allowedToolIds = {"x"}
    /\ \E b \in DOMAIN policyMap : policyMap[b].hasList /\ policyMap[b].allowedToolIds = {}

\* the calls that set or removed the policy of agent a
touches(a) ==
    {k \in 1..Len(calls) :
        \/ calls[k].op \in {"upsertPolicy", "removePolicy"} /\ calls[k].agentId = a
        \/ calls[k].op = "new" /\ \E x \in 1..Len(calls[k].policies) :
                                      calls[k].policies[x].agentId = a}

Unrestricted == Policy("", FALSE, {})

\* the policy most recently given for agent a and not removed since
effective(a) ==
    IF touches(a) = {} THEN Unrestricted
    ELSE LET c == calls[CHOOSE k \in touches(a) : \A k2 \in touches(a) : k2 <= k]
             mine == {x \in 1..Len(c.policies) : c.policies[x].agentId = a}
         IN IF c.op = "removePolicy" THEN Unrestricted
            ELSE c.policies[CHOOSE x \in mine : \A x2 \in mine : x2 <= x]

\* C16: after any sequence of upsertPolicy and removePolicy calls, check decides
\* for an agent by the policy most recently given for that agent and not
\* removed since (unrestricted if none), and an upsert or removal for one agent
\* never changes the decision for another agent.
C16_RuntimePolicyEdits ==
    /\ [](\A ctx \in ToolContexts :
            calls # <<>> =>
              (check(policyMap, ctx).allowed
                 <=> \/ ~effective(ctx.agentId).hasList
                     \/ effective(ctx.agentId).allowedToolIds = {}
                     \/ ctx.toolName \in effective(ctx.agentId).allowedToolIds))
    /\ [][\A ctx \in ToolContexts :
            (Len(calls') > Len(calls) /\ calls # <<>>
                /\ calls'[Len(calls')].agentId # ctx.agentId)
            => check(policyMap', ctx) = check(policyMap, ctx)]_vars

C16_Witness ==
    /\ Len(calls) = 3
    /\ calls[2] = [op |-> "upsertPolicy", agentId |-> "a",
                   policies |-> <<Policy("a", TRUE, {"x"})>>]
    /\ calls[3].op = "removePolicy" /\ calls[3].agentId = "a"
    /\ verdict.ctx = [agentId |-> "a", phase |-> "execution", toolName |-> "y"]
    /\ verdict.decision.allowed
    /\ "b" \in DOMAIN policyMap
    /\ ~check(policyMap, [agentId |-> "b", phase |-> "execution", toolName |-> "y"]).allowed


settled == opc \in {"returned", "rejected"}

\* invokePlanner used up its attempts without a decision
plannerExhausted ==
    /\ loop = "planner"
    /\ rpc = "failed"
    /\ llmCalls["planner"] = ceiling("planner")

\* the plan run holds is generateSkeletonPlan's: one dependency-free step per
\* enabled non-reflection agent
holdsSkeleton ==
    /\ Len(plan) = Len(workAgents(crew))
    /\ \A s \in Steps :
        /\ plan[s].id = skeletonSteps(crew)[s].id
        /\ plan[s].agentId = workAgents(crew)[s].id
        /\ plan[s].dependsOn = {}

notes(e) == \E x \in 1..Len(memory) : memory[x] = e

\* C17: when the route decision is "plan_then_parallel" and the planner fails
\* all its attempts, a settled run has returned (not rejected) a result with
\* planGenerated = true whose plan is the skeleton with the skeleton marker as
\* rationale, memory holds the observation noting the planner failure, and the
\* skeleton was run by the DAG executor (when it has a step and the run was
\* not terminated before).
C17_SkeletonFallback ==
    (settled /\ runOut.strategy = "plan_then_parallel" /\ plannerExhausted) =>
        /\ opc = "returned"
        /\ runOut.planGenerated
        /\ runOut.rationale = SkeletonRationale
        /\ holdsSkeleton
        /\ notes(Observation(PlannerFailedNote, FALSE))
        /\ (plan # <<>> /\ ~runOut.terminationEarly) =>
              /\ dpc = "returned"
              /\ runOut.parallelBatchesExecuted = runResult.waves


\* how many calls of hook with event the caller's telemetry received
received(hook, event) ==
    Cardinality({x \in 1..Len(telemetry) :
                    telemetry[x].hook = hook /\ telemetry[x].event = event})

\* the planner returned the plan of two independent steps in one parallel group
twoStepPlanned ==
    /\ runOut.generatedVia = "planner"
    /\ lastRaw = TwoStepText

\* C18: a run whose planner returned two independent steps in the same
\* parallel group, both units of work succeeding, has emitted when it returns
\* exactly one wave-complete notification, exactly two "start" and two
\* "success" step notifications and no "error" notification, whatever the
\* completion order and the concurrency ceiling (1 when the crew declares none).
C18_TwoStepTelemetry ==
    (opc = "returned" /\ twoStepPlanned /\ ~runOut.terminationEarly /\ NoWorkFailed) =>
        /\ received("onPlanWaveComplete", "") = 1
        /\ received("onPlanStepUpdate", "start") = 2
        /\ received("onPlanStepUpdate", "success") = 2
        /\ received("onPlanStepUpdate", "error") = 0


\* acquireRouteDecision rejected: run has no route decision
routeFailed == loop = "route" /\ rpc = "failed"

\* C19: a settled run has rejected exactly when no crew was resolved or no
\* route decision could be obtained; in every other situation (planner
\* failure, deadlocked plan, latched termination, failing model client or
\* telemetry hook after the route stage) it has resolved with a result.
C19_OnlyTwoAborts ==
    settled => (opc = "rejected" <=> (~crew.resolved \/ routeFailed))


\* the reason and detail a trip records in termination state t
tripRecorded(t) ==
    \/ /\ t.reason = MAX_AGENT_LOOPS
       /\ \E a \in ToolAgents :
            /\ t.agentLoopCounts[a] > crew.maxAgentLoops
            /\ t.terminationDetail = agentLoopDetail(a, crew.maxAgentLoops)
    \/ /\ t.reason = MAX_REFLECTION_CYCLES
       /\ t.reflectionCycles > crew.maxReflectionCycles
       /\ t.terminationDetail = reflectionDetail(crew.maxReflectionCycles)

\* C20: the termination state is a latch: whatever incrementAgentLoop,
\* incrementReflectionCycle, runReflectionPassPlaceholder and run do, once
\* terminated is true it stays true and reason and detail stay those recorded
\* by the trip that set it.
C20_TerminationLatch ==
    [][/\ (~termination.terminated /\ termination'.terminated) => tripRecorded(termination')
       /\ termination.terminated =>
            /\ termination'.terminated
            /\ termination'.reason = termination.reason
            /\ termination'.terminationDetail = termination.terminationDetail]_vars

\* a run returned early on the agent-loop trip and a later reflection call was
\* refused
C20_Witness ==
    /\ termination.terminated
    /\ termination.reason = MAX_AGENT_LOOPS
    /\ opc = "returned"
    /\ runOut.terminationEarly
    /\ runOut.terminationReason = MAX_AGENT_LOOPS
    /\ termination.reflectionCycles = MaxLoops
    /\ lastReturn = "false"


\* the step in which run enters executeDirectExecution or executePlanThenParallel
reachesBranch ==
    /\ opc \in {"route", "planned", "fallback"}
    /\ opc' \in {"direct", "dag", "returned"}

\* C21: if the termination state is latched when run reaches its execution
\* branch, that step dispatches no unit of work and moves no plan step out of
\* "pending", and run resolves in it with parallelBatchesExecuted = 0,
\* terminationEarly = true and the latched reason and detail.
C21_LatchedRunDispatchesNothing ==
    [][(reachesBranch /\ termination.terminated) =>
          /\ opc' = "returned"
          /\ queue' = <<>>
          /\ \A i \in DOMAIN stage' : stage'[i] = "new"
          /\ \A s \in DOMAIN plan' : plan'[s].status = "pending"
          /\ dpc' = "none"
          /\ runOut'.parallelBatchesExecuted = 0
          /\ runOut'.terminationEarly
          /\ runOut'.terminationReason = termination.reason
          /\ runOut'.terminationDetail = termination.terminationDetail]_vars

\* a run over a generated plan with steps returned early on the latch
C21_Witness ==
    /\ opc = "returned"
    /\ runOut.terminationEarly
    /\ runOut.planGenerated
    /\ plan # <<>>
    /\ \A s \in Steps : plan[s].status = "pending"
    /\ runOut.parallelBatchesExecuted = 0


\* the last k entries of sequence q
lastOf(q, k) == SubSeq(q, Len(q) - k + 1, Len(q))

\* C22: after any sequence of appendThought, appendObservation and clear on a
\* ledger of capacity C, size() <= C and the ledger holds exactly the most
\* recent min(n, C) of the n entries appended since the last clear, in append
\* order: the entries dropped are the oldest.
C22_LedgerKeepsMostRecent ==
    /\ size <= maxEntries
    /\ memory = lastOf(appended, Min(Len(appended), maxEntries))

\* a ledger that has dropped its oldest entries and holds a full window
C22_Witness ==
    /\ maxEntries = MaxCapacity
    /\ Len(appended) > maxEntries
    /\ size = maxEntries
    /\ memory[1] = appended[Len(appended) - maxEntries + 1]


\* step s is given a terminal status in this step from the result of the unit
\* of work built from s
ownResult(s) ==
    /\ dpc = "map"
    /\ rk <= Len(results[cur])
    /\ results[cur][rk].item = s
    /\ plan'[s].status = IF results[cur][rk].success THEN "done" ELSE "error"

\* C23: during run every status change of a plan step is pending -> running,
\* running -> done or running -> error, so that no step repeats the passage
\* or goes from pending to a terminal status, and a running step gets its
\* final status from its own result only.
C23_StepLifecycle ==
    [][\A s \in Steps :
          plan'[s].status # plan[s].status =>
              \/ plan[s].status = "pending" /\ plan'[s].status = "running"
              \/ /\ plan[s].status = "running"
                 /\ plan'[s].status \in {"done", "error"}
                 /\ ownResult(s)]_vars


\* the steps selected as ready for the wave that starts in this step
selected == IF groups' # groups
            THEN UNION {Range(groups'[x]) : x \in 1..Len(groups')} ELSE {}

\* C24: within one run the work factory is invoked and a unit of work
\* dispatched at most once per plan step: a step selected as ready is pending
\* and was never dispatched, and a unit is queued only for a step that has
\* none yet, also after its work failed.
C24_DispatchedAtMostOnce ==
    [][/\ \A s \in selected : plan[s].status = "pending" /\ stage[s] = "new"
       /\ \A s \in Steps :
            (stage'[s] = "queued" /\ stage[s] # "queued") => stage[s] = "new"]_vars

\* a step whose work failed was not selected again by a later wave
C24_Witness ==
    /\ dpc = "returned"
    /\ \E s, t \in Steps :
        /\ outcome[s] = "fail"
        /\ plan[s].status = "error"
        /\ waveOf[t] > waveOf[s]
        /\ stage[t] = "settled"


\* id d names a plan step and that step is done
resolvesDone(d) == \E j \in Steps : plan[j].id = d /\ plan[j].status = "done"

\* C25: a step is marked "running" only if, at that moment, every id of its
\* dependency list resolves to a plan step whose status is "done"; a step with
\* a pending, running, failed or nonexistent dependency is never started.
C25_DependencySafety ==
    [][\A s \in Steps :
          (plan[s].status # "running" /\ plan'[s].status = "running") =>
              \A d \in plan[s].dependsOn : resolvesDone(d)]_vars

\* a step was started after its dependency was done, and a step whose
\* dependency never resolved was never started
C25_Witness ==
    /\ dpc = "returned"
    /\ \E s, t \in Steps :
        /\ plan[s].dependsOn # {}
        /\ plan[s].status = "done"
        /\ plan[t].dependsOn # {}
        /\ \A d \in plan[t].dependsOn : ~resolvesDone(d)
        /\ stage[t] = "new"


\* C26: when the results of a group's batch are mapped back, a step is given
\* the outcome of the unit of work built from that same step: "done" if that
\* unit succeeded, "error" with that unit's message if it failed, whatever
\* agent ids the steps of the group carry and whatever order the actions
\* complete in.
C26_ResultGoesToItsStep ==
    [][dpc = "map" =>
          \A s \in Steps :
              plan'[s].status # plan[s].status =>
                  /\ results[cur][rk].item = s
                  /\ plan'[s].status = IF outcome[s] = "ok" THEN "done" ELSE "error"
                  /\ outcome[s] # "ok" =>
                        plan'[s].errorMessage = executeItem(s, outcome[s]).errorMessage]_vars


\* what a counting call returns when it raises a counter to n under ceiling max
returnedFor(n, max) == IF limited(max) /\ n > max THEN "false" ELSE "true"

\* the step raises the loop counter of agent a: a call of incrementAgentLoop(a)
\* that counted
countsLoop(a) == termination'.agentLoopCounts[a] # termination.agentLoopCounts[a]

\* the step raises the reflection counter without writing to the ledger: a call
\* of incrementReflectionCycle() that counted
countsReflection ==
    /\ termination'.reflectionCycles # termination.reflectionCycles
    /\ memory' = memory

\* C27: from an unlatched state, a call of incrementAgentLoop(a) raises a's
\* counter by one and leaves every other counter alone; it returns true while
\* the new count is at most the ceiling M and false when it is M + 1, and that
\* call latches MAX_AGENT_LOOPS; incrementReflectionCycle does the same with
\* maxReflectionCycles and MAX_REFLECTION_CYCLES; without a ceiling every call
\* returns true and nothing latches; once latched, no counter changes and a
\* call returns false.
C27_CountingCalls ==
    [][/\ \A a \in ToolAgents :
            countsLoop(a) =>
                /\ ~termination.terminated
                /\ termination'.agentLoopCounts =
                       [termination.agentLoopCounts EXCEPT ![a] = @ + 1]
                /\ termination'.reflectionCycles = termination.reflectionCycles
                /\ lastReturn' = returnedFor(termination'.agentLoopCounts[a], crew.maxAgentLoops)
                /\ termination'.terminated = (lastReturn' = "false")
                /\ termination'.terminated => termination'.reason = MAX_AGENT_LOOPS
       /\ countsReflection =>
            /\ ~termination.terminated
            /\ termination'.reflectionCycles = termination.reflectionCycles + 1
            /\ termination'.agentLoopCounts = termination.agentLoopCounts
            /\ lastReturn' = returnedFor(termination'.reflectionCycles, crew.maxReflectionCycles)
            /\ termination'.terminated = (lastReturn' = "false")
            /\ termination'.terminated => termination'.reason = MAX_REFLECTION_CYCLES
       /\ termination.terminated =>
            /\ termination'.agentLoopCounts = termination.agentLoopCounts
            /\ termination'.reflectionCycles = termination.reflectionCycles
            /\ lastReturn' \in {lastReturn, "false"}
       /\ (~limited(crew.maxAgentLoops) /\ ~limited(crew.maxReflectionCycles)) =>
            /\ ~termination'.terminated
            /\ lastReturn' \in {lastReturn, "true"}]_vars

\* agent "b" was counted up to the ceiling and got true, then agent "a" was
\* counted one past it: that call returned false and latched, the reflection
\* counter standing at its own ceiling without having tripped
C27_Witness ==
    /\ limited(crew.maxAgentLoops)
    /\ termination.agentLoopCounts["a"] = crew.maxAgentLoops + 1
    /\ termination.agentLoopCounts["b"] = crew.maxAgentLoops
    /\ termination.reflectionCycles = crew.maxReflectionCycles
    /\ termination.terminated
    /\ termination.reason = MAX_AGENT_LOOPS
    /\ lastReturn = "false"


\* the entries of the store that carry the selected id, and those flagged default
selectedEntries == {x \in 1..Len(store.crews) : store.crews[x].id = store.selectedCrewId}

defaultEntries == {x \in 1..Len(store.crews) : store.crews[x].default}

\* nothing of a run has happened: no model call, no unit of work, no batch, no
\* plan, no ledger entry written by run
nothingDone ==
    /\ \A l \in Loops : llmCalls[l] = 0
    /\ work = <<>> /\ queue = <<>> /\ inFlight = <<>> /\ results = <<>>
    /\ plan = <<>> /\ telemetry = <<>>
    /\ rpc = "idle" /\ dpc = "none" /\ bpc = "idle"

\* C28: the crew of the orchestrator is the store's selected entry when one
\* carries the selected id, else the entry flagged default, else the first
\* entry, and there is none only if the store is empty; with no crew, run never
\* gets past its first line: the call rejects with the no-crew error in the
\* step that makes it, having made no model call, dispatched no unit of work
\* and appended nothing to the memory ledger.
C28_CrewResolution ==
    [][/\ IF selectedEntries # {}
          THEN \E x \in selectedEntries : crew = store.crews[x]
          ELSE IF defaultEntries # {}
          THEN \E x \in defaultEntries : crew = store.crews[x]
          ELSE IF store.crews # <<>>
          THEN crew = store.crews[1]
          ELSE ~crew.resolved
       /\ ~crew.resolved =>
            /\ opc \in {"idle", "rejected"}
            /\ nothingDone /\ nothingDone'
            /\ opc # opc' =>
                 /\ opc' = "rejected"
                 /\ runOut'.error = NoCrewMsg
                 /\ memory' = memory]_vars

\* an orchestrator built over an empty store, whose run has rejected
C28_Witness ==
    /\ store.crews = <<>>
    /\ ~crew.resolved
    /\ opc = "rejected"
    /\ runOut.error = NoCrewMsg
    /\ memory = <<>>


\* every configured attempt of the route loop was made and every text the model
\* returned failed parseRouteDecision
routeStillInvalid ==
    /\ loop = "route"
    /\ Len(response) = ceiling("route")
    /\ \A i \in 1..Len(response) : ~parseRouteDecision(response[i]).ok

\* C29: when the route decision is still invalid after the configured number of
\* attempts and the loop has ended, run has rejected with the attempts-exhausted
\* error carrying the message of the last parse failure; the planner was never
\* called, no unit of work and no plan exist, and the result carries no
\* strategy.
C29_RouteFailureAborts ==
    (routeStillInvalid /\ rpc = "failed" /\ opc # "route") =>
        /\ opc = "rejected"
        /\ raised = <<"attempts exhausted", parseRouteDecision(lastRaw).error>>
        /\ runOut.error = raised[1]
        /\ llmCalls["planner"] = 0
        /\ work = <<>> /\ queue = <<>> /\ plan = <<>>
        /\ runOut.strategy = "undefined"
        /\ ~runOut.planGenerated


\* the error attempt i was caught with: the message of its parse failure, or
\* the callback's error when the parse returned and the callback threw
errorOf(i) ==
    IF parseOf(loop, response[i]).ok THEN HookMsg ELSE parseOf(loop, response[i]).error

\* the two initial messages followed by the pair of every failed attempt up to n
RECURSIVE sequenceAfter(_)
sequenceAfter(n) ==
    IF n <= 0 THEN <<SystemMessage, PromptMessage>>
    ELSE sequenceAfter(n - 1)
         \o <<[role |-> "assistant", content |-> response[n]],
              [role |-> "user", content |-> <<"repair", errorOf(n)>>]>>

\* the number of failed attempts that were followed by another attempt
repaired ==
    IF attempt <= ceiling(loop) THEN attempt - 1
    ELSE IF ceiling(loop) >= 1 THEN ceiling(loop) - 1 ELSE 0

\* C30: in both repair loops the message sequence at attempt k is the two
\* initial messages followed, for each earlier failed attempt in order, by an
\* assistant message with that attempt's raw output and a user message with the
\* repair instruction built from that attempt's error; after the last attempt
\* the sequence is the one that attempt was sent with.
C30_MessageSequence ==
    loop # "none" =>
        /\ repaired <= Len(response)
        /\ messages = sequenceAfter(repaired)
        /\ rpc = "call" => Len(response) = attempt - 1

\* the default ceiling of three attempts was used up: the third attempt was
\* sent with the pairs of the first two and nothing was appended after it
C30_Witness ==
    /\ loop # "none"
    /\ rpc = "failed"
    /\ attempt = DefaultMaxAttempts + 1
    /\ Len(response) = DefaultMaxAttempts
    /\ Len(messages) = 2 * DefaultMaxAttempts
    /\ messages[3].content = response[1]
    /\ messages[6] = buildRepairInstruction(errorOf(2))


\* C31: parseStructured returns an object only if every required key is present
\* with a value that is neither undefined nor null; an object in which a
\* required key is null is rejected with a validation error.
C31_RequiredKeysNonNull ==
    (fn = "parseStructured" /\ ret # Pending) =>
        /\ ret.ok =>
              \A x \in 1..Len(arg.requiredKeys) :
                  ~isMissing(prop(arg.raw, arg.requiredKeys[x]))
        /\ (/\ HoldsObject(arg.raw)
            /\ \E x \in 1..Len(arg.requiredKeys) :
                  prop(arg.raw, arg.requiredKeys[x]).type = "null")
              => (~ret.ok /\ ret.error \in {StructuredMissingMsg(k) : k \in {"strategy", "rationale"}})


\* the first entry of item i in the results of its batch
firstEntry(i) ==
    LET rs == results[batchOf[i]]
        x == CHOOSE x \in 1..Len(rs) :
                 rs[x].item = i /\ \A y \in 1..(x - 1) : rs[y].item # i
    IN rs[x]

\* item i's action has ended and the wrapper has returned or thrown
wrapperDone(i) == stage[i] \in {"finished", "pushed", "hookThrew", "settled"}

\* C32: with a checkpoint tracker, commit is called once for an item, after the
\* item's action has resolved (and not at all for an action that raises); a
\* rejected commit is swallowed: the item's result carries the success flag and
\* error message its action returned, and the batch is not rejected on account
\* of the tracker.
C32_CommitFailureSwallowed ==
    /\ \A i \in Items :
        /\ Len(commits[i]) <= 1
        /\ commits[i] # <<>> => (wrapperDone(i) /\ outcome[i] \in {"ok", "fail"})
        /\ stage[i] = "committing" => (commits[i] = <<>> /\ outcome[i] \in {"ok", "fail"})
        /\ (wrapperDone(i) /\ outcome[i] \in {"ok", "fail"}) => Len(commits[i]) = 1
        /\ stage[i] \in {"pushed", "hookThrew", "settled"} =>
              /\ firstEntry(i).success = (outcome[i] = "ok")
              /\ firstEntry(i).errorMessage =
                    CASE outcome[i] = "ok" -> NoMsg
                      [] outcome[i] = "fail" -> ReturnedMsg
                      [] OTHER -> RaisedMsg
    /\ bpc = "rejected" => hooks # {}

\* the commit of item 1 was rejected while item 2 was still queued behind it;
\* item 1's result is the success its action returned, and item 2 has since
\* been launched, committed and settled
C32_Witness ==
    /\ maxConcurrent = 1
    /\ Cardinality(Items) >= 2
    /\ commits[1] = <<"rejected">>
    /\ outcome[1] = "ok"
    /\ stage[1] = "settled"
    /\ firstEntry(1).success
    /\ stage[2] = "settled"
    /\ Len(commits[2]) = 1
    /\ hooks = {}


\* the appends since the last clear that the capacity bound has not evicted
retained == {k \in 1..Len(appended) : k > Len(appended) - maxEntries}

\* the positions of the ledger that hold the entry of the k-th append
positionsOf(k) == {x \in 1..Len(memory) : memory[x] = appended[k]}

\* C33: whatever the order in which the step hooks, the wave hooks and the
\* orchestrator call appendThought and appendObservation, every append that has
\* not been evicted by the capacity bound is in the ledger exactly once, an
\* evicted one not at all, nothing else is in the ledger, and the entries stand
\* in the order the appends were executed.
C33_NoAppendLostOrDuplicated ==
    /\ \A k \in 1..Len(appended) :
          Cardinality(positionsOf(k)) = IF k \in retained THEN 1 ELSE 0
    /\ \A x \in 1..Len(memory) : \E k \in retained : x \in positionsOf(k)
    /\ \A j, k \in retained :
          j < k => \A x \in positionsOf(j), y \in positionsOf(k) : x < y

\* thoughts and observations were appended alternately, more of them than the
\* ledger holds
C33_Witness ==
    /\ maxEntries = MaxCapacity
    /\ Len(appended) = MaxAppends
    /\ \A k \in 1..(Len(appended) - 1) : appended[k].type # appended[k + 1].type
    /\ Len(memory) = MaxCapacity
    /\ memory[Len(memory)] = appended[Len(appended)]


\* the steps that were marked "running" and dispatched during the run
started == {s \in Steps : waveOf[s] >= 0}

\* C34: the stepsExecuted value run returns is the number of steps that were
\* started during the run; a step marked "error" by deadlock detection without
\* having been started is not counted.
C34_StepsExecutedCountsStarted ==
    dpc = "returned" => runResult.stepsExecuted = Cardinality(started)


\* C35: a Plan returned by invokePlanner never has more steps than the step
\* cap (maxSteps, 12 when it is not given).
C35_PlanWithinStepCap ==
    (fn = "invokePlanner" /\ ret.ok) => Len(ret.value.steps) <= stepCap(arg.maxSteps)


\* the items whose action is executing, of whatever batch
executing == {i \in Items : stage[i] = "running"}

\* the current batch has started actions
batchLaunched == \E j \in Items : batchOf[j] = cur /\ stage[j] \notin {"new", "queued"}

\* C36: over a whole run of PlanDAGExecutor on one ParallelExecutor, at most
\* maxConcurrent actions are executing at any instant, and once a batch has
\* started its actions no action of an earlier batch is still executing.
C36_CeilingAcrossBatches ==
    /\ Cardinality(executing) <= maxConcurrent
    /\ batchLaunched => \A i \in executing : batchOf[i] = cur


\* the message the unit of work built from step s failed with
workMessage(s) == IF outcome[s] = "fail" THEN ReturnedMsg ELSE RaisedMsg

\* C37: when run returns every step is "done" or "error", failedSteps holds
\* exactly the steps with status "error", and a step whose own work failed
\* carries that work's error message, not the deadlock message.
C37_TerminalStatuses ==
    dpc = "returned" =>
        /\ \A s \in Steps : plan[s].status \in {"done", "error"}
        /\ Range(runResult.failedSteps) = {s \in Steps : plan[s].status = "error"}
        /\ Len(runResult.failedSteps) = Cardinality(Range(runResult.failedSteps))
        /\ \A s \in Steps :
              (plan[s].status = "error" /\ outcome[s] \in {"fail", "raise"})
              => plan[s].errorMessage = workMessage(s)


\* the positions in the notification log of the lifecycle notifications with
\* one of the events evs for the step with the given id
notified(id, evs) ==
    {x \in 1..Len(telemetry) :
        /\ telemetry[x].hook = "onPlanStepUpdate"
        /\ telemetry[x].id = id
        /\ telemetry[x].event \in evs}

\* C38: lifecycle notifications are well formed per step: at most one "start",
\* at most one of "success" / "error", the latter only after the step's
\* "start"; and when run has returned every step that received "start" has
\* received exactly one "success" or "error".
C38_LifecycleNotifications ==
    \A s \in Steps :
        LET starts == notified(plan[s].id, {"start"})
            ends == notified(plan[s].id, {"success", "error"})
        IN /\ Cardinality(starts) <= 1
           /\ Cardinality(ends) <= 1
           /\ \A y \in ends : \E x \in starts : x < y
           /\ (dpc = "returned" /\ starts # {}) => Cardinality(ends) = 1


\* the positions of item i's entries in the results of its batch
entriesOf(i) ==
    IF batchOf[i] = 0 THEN {}
    ELSE {x \in 1..Len(results[batchOf[i]]) : results[batchOf[i]][x].item = i}

\* C39: the results list of runBatch holds exactly one entry per submitted
\* item, carrying the item's agent id and phase, whether the action succeeds,
\* returns failure or raises and whether or not onResult raises for it: no item
\* ever has two entries, and none has zero when runBatch returns.
C39_OneEntryPerItem ==
    \A i \in Items :
        /\ Cardinality(entriesOf(i)) <= 1
        /\ \A x \in entriesOf(i) :
              /\ results[batchOf[i]][x].agentId = work[i].agentId
              /\ results[batchOf[i]][x].phase = work[i].phase
        /\ bpc = "returned" => Cardinality(entriesOf(i)) = 1


\* the steps that ended "error" with the message of a failed unit of work
workFailed ==
    {s \in Steps : plan[s].status = "error" /\ plan[s].errorMessage # DeadlockMsg}

\* the steps that depend, directly or through other steps, on a step whose
\* work failed
behindFailure == BlockedFrom(workFailed) \ workFailed

\* the steps whose dependencies, direct and indirect, all resolve to steps
\* whose work did not fail
RECURSIVE ClearFrom(_)
ClearFrom(R) ==
    LET R2 == {s \in Steps : \A d \in plan[s].dependsOn : resolve(d) \in R \ workFailed}
    IN IF R2 = R THEN R ELSE ClearFrom(R2)

clearOfFailure == ClearFrom({})

\* C40: when run has returned, every step behind a step whose work failed was
\* never started and is "error" with the deadlock message, and every step that
\* does not depend, directly or indirectly, on a failed or unresolvable step
\* was started, its action has completed, and it did not end with the deadlock
\* message; run returns rather than rejects.
C40_FailureContainedToDependents ==
    dpc = "returned" =>
        /\ \A s \in behindFailure :
              /\ waveOf[s] = -1
              /\ plan[s].status = "error"
              /\ plan[s].errorMessage = DeadlockMsg
        /\ \A s \in clearOfFailure :
              /\ waveOf[s] >= 0
              /\ stage[s] \notin {"new", "queued", "running"}
              /\ plan[s].status = "done" \/ s \in workFailed

====
